---- MODULE Spec2Model ----
(***************************************************************************)
(* Model of the transaction engine core of radixdlt-scrypto:               *)
(*   - Track, the transactional substate store (track/track.rs);           *)
(*   - the native operations that open substate locks (fungible vault,     *)
(*     NodeMove proof check, generate_uuid);                               *)
(*   - the SystemModuleMixer event dispatch (system/module_mixer.rs);      *)
(*   - the costing, limits and NodeMove modules and the fee table;         *)
(*   - the transaction runtime's uuids, the Auth module's role table,      *)
(*     object-module calls and Proof::contains;                            *)
(*   - the replay tool's TxnSync::sync (reader and executor threads) and   *)
(*     the InfoAlloc counting allocator (concurrent alloc and dealloc).    *)
(* Each part has its own specification over the shared variables.          *)
(***************************************************************************)
EXTENDS Integers, FiniteSets, Sequences, TLC

VARIABLES
    track,      \* the Track struct of the raw-API specification
    phase,      \* "executing" | "reverted" | "finalized" (finalize consumes the Track)
    fault,      \* "none", or the message of the panic that ended the program
    last,       \* the last call on the Track and what it returned
    diff,       \* StateUpdates returned by finalize (empty before)
    hist,       \* history of the transaction, used only to state properties
    store,      \* the Track under the kernel in the frame specification
    frame,      \* kernel side of the frame specification: fee reserve, last operation, outcome
    mixer,      \* SystemModuleMixer: enabled_modules and the log of the last dispatch
    system,     \* kernel depth, costing module and the last before_invoke
    limits,     \* LimitsModule, the substates its events told of, and the last event
    moves,      \* NodeMove module: the nodes of the last frame push or execution finish
    runtime,    \* the transaction runtime of two executions (uuid generation)
    auth,       \* Auth module: the role table of a component and the last request
    objects,    \* objects of a transaction and the last object-module call
    fees,       \* fee table and fee reserve: the last kernel API cost charged
    ownership,  \* a proof held by a component and the last contains query
    reserve,    \* costing module at on_init: the deferred charges of the fee reserve
    sync,       \* TxnSync::sync: the reader and executor threads, the channel and the two databases
    info        \* InfoAlloc: its three atomic counters and the threads inside alloc and dealloc

vars == <<track, phase, fault, last, diff, hist, store, frame, mixer, system, limits, moves, runtime, auth, objects, fees, ownership, reserve, sync, info>>

trackVars == <<track, phase, fault, last, diff, hist>>
frameVars == <<store, frame>>

(***************************************************************************)
(* Bounds of the model.                                                    *)
(***************************************************************************)
MaxHandles == 2     \* lock handles issued per transaction (next_lock_id never exceeds it)
MaxValue == 1       \* substate values of the raw-API specification are 0..MaxValue

(***************************************************************************)
(* LockFlags.  A flag set is a subset of the three flags.                  *)
(***************************************************************************)
MUTABLE == "MUTABLE"
UNMODIFIED_BASE == "UNMODIFIED_BASE"
FORCE_WRITE == "FORCE_WRITE"

LockFlagSets == SUBSET {MUTABLE, UNMODIFIED_BASE, FORCE_WRITE}

read_only == {}

(***************************************************************************)
(* SubstateLockState, SubstateMetaState, LoadedSubstate.                   *)
(***************************************************************************)
Read(n) == [tag |-> "Read", n |-> n]

Write == [tag |-> "Write"]

no_lock == Read(0)

New == [tag |-> "New"]

Loaded == [tag |-> "Loaded"]

None == [some |-> FALSE]

Some(v) == [some |-> TRUE, value |-> v]

Updated(snapshot) == [tag |-> "Updated", snapshot |-> snapshot]

LoadedSubstate(v, ls, ms) == [substate |-> v, lock_state |-> ls, meta_state |-> ms]

Ok(h) == [ok |-> TRUE, handle |-> h]

Err(e) == [ok |-> FALSE, error |-> e]

\* usize::MAX, what 0 - 1 wraps to in a build without overflow checks
\* (the model checker's integers are narrower than usize: a stand-in)
usize_MAX == 2147483647

wrapping_dec(n) == IF n = 0 THEN usize_MAX ELSE n - 1

(***************************************************************************)
(* Track.  loaded_substates and locks are maps: functions whose domain is  *)
(* the set of keys present.                                                *)
(***************************************************************************)
EmptyMap == [k \in {} |-> 0]

TrackNew(db) ==
    [substate_db |-> db,
     loaded_substates |-> EmptyMap,
     locks |-> EmptyMap,
     next_lock_id |-> 0]

MapInsert(m, k, v) == [x \in (DOMAIN m) \cup {k} |-> IF x = k THEN v ELSE m[x]]

MapRemove(m, k) == [x \in (DOMAIN m) \ {k} |-> m[x]]

new_lock_handle(t, key, flags) ==
    [t EXCEPT !.locks = MapInsert(@, t.next_lock_id, [key |-> key, flags |-> flags]),
              !.next_lock_id = @ + 1]

\* Faulty variant of load_substate: an absent substate loads as a default value
load_substate_Default(t, key) ==
    IF key \in DOMAIN t.substate_db THEN Some(t.substate_db[key]) ELSE Some(0)

\* get_substate on the database: Some(value) or None
load_substate(t, key) ==
    IF key \in DOMAIN t.substate_db THEN Some(t.substate_db[key]) ELSE None

add_loaded_substate(t, key, v) ==
    [t EXCEPT !.loaded_substates = MapInsert(@, key, LoadedSubstate(v, no_lock, Loaded))]

\* Faulty variant of CheckSubstateState: the Updated arm is missing
CheckSubstateState_OnlyNew(ls, flags) ==
    IF UNMODIFIED_BASE \in flags /\ ls.meta_state.tag = "New"
    THEN "LockUnmodifiedBaseOnNewSubstate"
    ELSE "ok"

\* The UNMODIFIED_BASE check of acquire_lock: "ok" or the error it returns
CheckSubstateState(ls, flags) ==
    IF UNMODIFIED_BASE \in flags
    THEN CASE ls.meta_state.tag = "New" -> "LockUnmodifiedBaseOnNewSubstate"
           [] ls.meta_state.tag = "Updated" -> "LockUnmodifiedBaseOnOnUpdatedSubstate"
           [] OTHER -> "ok"
    ELSE "ok"

\* Faulty variant of CheckPermission: the n != 0 test is missing
CheckPermission_NoReaderCheck(ls, flags) ==
    IF ls.lock_state.tag = "Read"
    THEN IF MUTABLE \in flags
         THEN [ok |-> TRUE, lock_state |-> Write]
         ELSE [ok |-> TRUE, lock_state |-> Read(ls.lock_state.n + 1)]
    ELSE Err("SubstateLocked")

\* The read/write permission check of acquire_lock: the new lock state, or the error
CheckPermission(ls, flags) ==
    IF ls.lock_state.tag = "Read"
    THEN IF MUTABLE \in flags
         THEN IF ls.lock_state.n # 0
              THEN Err("SubstateLocked")
              ELSE [ok |-> TRUE, lock_state |-> Write]
         ELSE [ok |-> TRUE, lock_state |-> Read(ls.lock_state.n + 1)]
    ELSE Err("SubstateLocked")

\* Faulty variant of acquire_lock: the handle id is taken before the checks, so a
\* refused request uses one up
acquire_lock_HandleFirst(t, key, flags) ==
    LET missing == key \notin DOMAIN t.loaded_substates
        maybe == load_substate(t, key)
    IN  IF missing /\ ~maybe.some
        THEN [track |-> t, result |-> Err("NotFound")]
        ELSE LET t1 == IF missing THEN add_loaded_substate(t, key, maybe.value) ELSE t
                 ls == t1.loaded_substates[key]
                 st == CheckSubstateState(ls, flags)
                 perm == CheckPermission(ls, flags)
             IN  IF st # "ok"
                 THEN [track |-> [t1 EXCEPT !.next_lock_id = @ + 1], result |-> Err(st)]
                 ELSE IF ~perm.ok
                 THEN [track |-> [t1 EXCEPT !.next_lock_id = @ + 1], result |-> perm]
                 ELSE LET t2 == [t1 EXCEPT !.loaded_substates[key].lock_state = perm.lock_state]
                      IN  [track |-> new_lock_handle(t2, key, flags),
                           result |-> Ok(t2.next_lock_id)]

acquire_lock(t, key, flags) ==
    LET missing == key \notin DOMAIN t.loaded_substates
        maybe == load_substate(t, key)
    IN  IF missing /\ ~maybe.some
        THEN [track |-> t, result |-> Err("NotFound")]
        ELSE LET t1 == IF missing THEN add_loaded_substate(t, key, maybe.value) ELSE t
                 ls == t1.loaded_substates[key]
                 st == CheckSubstateState(ls, flags)
                 perm == CheckPermission(ls, flags)
             IN  IF st # "ok"
                 THEN [track |-> t1, result |-> Err(st)]
                 ELSE IF ~perm.ok
                 THEN [track |-> t1, result |-> perm]
                 ELSE LET t2 == [t1 EXCEPT !.loaded_substates[key].lock_state = perm.lock_state]
                      IN  [track |-> new_lock_handle(t2, key, flags),
                           result |-> Ok(t2.next_lock_id)]

\* Faulty variant of ReleaseMeta: an entry already Updated keeps its first snapshot
ReleaseMeta_KeepFirstSnapshot(ls, flags) ==
    IF ls.meta_state.tag = "Updated"
    THEN ls.meta_state
    ELSE IF FORCE_WRITE \in flags
    THEN IF ls.meta_state.tag = "New"
         THEN [tag |-> "panic"]
         ELSE Updated(Some(ls.substate))
    ELSE IF ls.meta_state.tag = "Loaded"
         THEN Updated(None)
         ELSE ls.meta_state

\* The meta-state release_lock leaves after closing a write lock ("panic" when it panics)
ReleaseMeta(ls, flags) ==
    IF FORCE_WRITE \in flags
    THEN IF ls.meta_state.tag = "New"
         THEN [tag |-> "panic"]
         ELSE Updated(Some(ls.substate))
    ELSE IF ls.meta_state.tag = "Loaded"
         THEN Updated(None)
         ELSE ls.meta_state

\* release_lock; overflow_checks is the build's treatment of usize underflow
release_lock(t, handle, overflow_checks) ==
    IF handle \notin DOMAIN t.locks
    THEN [track |-> t, panic |-> "Invalid lock handle"]
    ELSE LET lock == t.locks[handle]
             t1 == [t EXCEPT !.locks = MapRemove(@, handle)]
         IN  IF lock.key \notin DOMAIN t1.loaded_substates
             THEN [track |-> t1, panic |-> "Substate missing for valid lock handle"]
             ELSE LET ls == t1.loaded_substates[lock.key]
                  IN  IF ls.lock_state.tag = "Read"
                      THEN IF ls.lock_state.n = 0 /\ overflow_checks
                           THEN [track |-> t1, panic |-> "attempt to subtract with overflow"]
                           ELSE [track |-> [t1 EXCEPT !.loaded_substates[lock.key].lock_state =
                                                Read(wrapping_dec(ls.lock_state.n))],
                                 panic |-> "none"]
                      ELSE LET t2 == [t1 EXCEPT !.loaded_substates[lock.key].lock_state = no_lock]
                               ms == ReleaseMeta(ls, lock.flags)
                           IN  IF ms.tag = "panic"
                               THEN [track |-> t2, panic |-> "Unexpected"]
                               ELSE [track |-> [t2 EXCEPT !.loaded_substates[lock.key].meta_state = ms],
                                     panic |-> "none"]

read_substate(t, handle) ==
    IF handle \notin DOMAIN t.locks
    THEN [panic |-> "Invalid lock handle"]
    ELSE IF t.locks[handle].key \notin DOMAIN t.loaded_substates
    THEN [panic |-> "Substate missing for valid lock handle"]
    ELSE [panic |-> "none", value |-> t.loaded_substates[t.locks[handle].key].substate]

\* Faulty variant of update_substate: the flags of the handle are not looked at
update_substate_AnyHandle(t, handle, v) ==
    IF handle \notin DOMAIN t.locks
    THEN [track |-> t, panic |-> "Invalid lock handle"]
    ELSE IF t.locks[handle].key \notin DOMAIN t.loaded_substates
    THEN [track |-> t, panic |-> "Substate missing for valid lock handle"]
    ELSE [track |-> [t EXCEPT !.loaded_substates[t.locks[handle].key].substate = v],
          panic |-> "none"]

\* Faulty variant of update_substate: the value is written to a copy and lost
update_substate_Dropped(t, handle, v) ==
    IF handle \in DOMAIN t.locks /\ MUTABLE \notin t.locks[handle].flags
    THEN [track |-> t, panic |-> "No write permission"]
    ELSE [track |-> t, panic |-> "none"]

update_substate(t, handle, v) ==
    IF handle \notin DOMAIN t.locks
    THEN [track |-> t, panic |-> "Invalid lock handle"]
    ELSE IF MUTABLE \notin t.locks[handle].flags
    THEN [track |-> t, panic |-> "No write permission"]
    ELSE IF t.locks[handle].key \notin DOMAIN t.loaded_substates
    THEN [track |-> t, panic |-> "Substate missing for valid lock handle"]
    ELSE [track |-> [t EXCEPT !.loaded_substates[t.locks[handle].key].substate = v],
          panic |-> "none"]

create_substate(t, key, v) ==
    [t EXCEPT !.loaded_substates = MapInsert(@, key, LoadedSubstate(v, no_lock, New))]

\* Whether revert_non_force_write_changes retains the entry
RevertRetains(ls) == ls.meta_state.tag = "Updated" /\ ls.meta_state.snapshot.some

revert_non_force_write_changes(t) ==
    LET kept == {k \in DOMAIN t.loaded_substates : RevertRetains(t.loaded_substates[k])}
    IN  [t EXCEPT !.loaded_substates =
            [k \in kept |-> [t.loaded_substates[k] EXCEPT
                                !.substate = t.loaded_substates[k].meta_state.snapshot.value]]]

\* Faulty variant of StateUpdateOf: every record is an Update
StateUpdateOf_AlwaysUpdate(ls) == [kind |-> "Update", value |-> ls.substate]

\* The StateUpdate finalize emits for one loaded substate
StateUpdateOf(ls) ==
    IF ls.meta_state.tag = "New"
    THEN [kind |-> "Create", value |-> ls.substate]
    ELSE [kind |-> "Update", value |-> ls.substate]

\* StateUpdates.substate_changes: a map from substate key to StateUpdate
finalize(t) == [k \in DOMAIN t.loaded_substates |-> StateUpdateOf(t.loaded_substates[k])]

(***************************************************************************)
(* The raw Track API: any caller, any order.  A transaction executes       *)
(* (acquire, read, update, release, create), may be reverted once when it  *)
(* fails, and is finalized; a panic ends the program.                      *)
(***************************************************************************)
TrackKeys == {"a", "c"}

\* The substate database of the raw-API specification: "c" is absent
TrackDb == [k \in {"a"} |-> 0]

TrackValues == 0..MaxValue

HistInit ==
    [touched |-> {},            \* keys loaded or created so far
     created |-> {},            \* keys created by create_substate
     write_closed |-> {},       \* keys on which a write lock was closed
     force_closed |-> EmptyMap, \* key -> value at its latest FORCE_WRITE write-lock close
     written |-> EmptyMap]      \* key -> latest update_substate not rolled back

Init ==
    /\ track = TrackNew(TrackDb)
    /\ phase = "executing"
    /\ fault = "none"
    /\ last = [op |-> "new"]
    /\ diff = EmptyMap
    /\ hist = HistInit
    /\ store = TrackNew(EmptyMap)
    /\ frame = [status |-> "unused"]
    /\ mixer = [event |-> "unused"]
    /\ system = [event |-> "unused"]
    /\ limits = [event |-> "unused"]
    /\ moves = [event |-> "unused"]
    /\ runtime = [event |-> "unused"]
    /\ auth = [event |-> "unused"]
    /\ objects = [event |-> "unused"]
    /\ fees = [event |-> "unused"]
    /\ ownership = [event |-> "unused"]
    /\ reserve = [event |-> "unused"]
    /\ sync = [event |-> "unused"]
    /\ info = [event |-> "unused"]

Running == fault = "none" /\ phase # "finalized"

\* The outstanding handles of the lock table on a substate, and those opened with MUTABLE
HandlesOn(t, key) == {h \in DOMAIN t.locks : t.locks[h].key = key}

WriteHandlesOn(t, key) == {h \in HandlesOn(t, key) : MUTABLE \in t.locks[h].flags}

AcquireLock ==
    /\ Running /\ phase = "executing"
    /\ \E key \in TrackKeys, flags \in LockFlagSets :
          LET r == acquire_lock(track, key, flags)
          IN  /\ r.result.ok => track.next_lock_id < MaxHandles
              /\ track' = r.track
              /\ last' = [op |-> "acquire_lock", key |-> key, flags |-> flags,
                          result |-> r.result,
                          held |-> Cardinality(HandlesOn(track, key)),
                          held_write |-> Cardinality(WriteHandlesOn(track, key)),
                          same |-> (r.track = track)]
              /\ hist' = [hist EXCEPT !.touched = @ \cup ({key} \cap DOMAIN r.track.loaded_substates)]
    /\ UNCHANGED <<phase, fault, diff, store, frame, mixer, system, limits, moves, runtime, auth, objects, fees, ownership, reserve, sync, info>>

\* The builds that differ on this release: with and without overflow checks
\* when it decrements Read(0), one build otherwise
BuildProfiles(t, handle) ==
    LET key == t.locks[handle].key
    IN  IF key \in DOMAIN t.loaded_substates /\ t.loaded_substates[key].lock_state = Read(0)
        THEN BOOLEAN
        ELSE {TRUE}

ReleaseLock ==
    /\ Running
    /\ \E handle \in DOMAIN track.locks :
        \E overflow_checks \in BuildProfiles(track, handle) :
          LET lock == track.locks[handle]
              r == release_lock(track, handle, overflow_checks)
              wrote == r.panic = "none" /\ MUTABLE \in lock.flags
          IN  /\ track' = r.track
              /\ fault' = r.panic
              /\ last' = [op |-> "release_lock", key |-> lock.key, flags |-> lock.flags,
                          handle |-> handle]
              /\ hist' = [hist EXCEPT
                    !.write_closed = IF wrote THEN @ \cup {lock.key} ELSE @,
                    !.force_closed = IF wrote /\ FORCE_WRITE \in lock.flags
                                     THEN MapInsert(@, lock.key, track.loaded_substates[lock.key].substate)
                                     ELSE @]
    /\ UNCHANGED <<phase, diff, store, frame, mixer, system, limits, moves, runtime, auth, objects, fees, ownership, reserve, sync, info>>

ReadSubstate ==
    /\ Running
    /\ \E handle \in DOMAIN track.locks :
          LET r == read_substate(track, handle)
          IN  /\ fault' = r.panic
              /\ last' = [op |-> "read_substate", key |-> track.locks[handle].key,
                          handle |-> handle, result |-> r]
    /\ UNCHANGED <<track, phase, diff, hist, store, frame, mixer, system, limits, moves, runtime, auth, objects, fees, ownership, reserve, sync, info>>

UpdateSubstate ==
    /\ Running /\ phase = "executing"
    /\ \E handle \in DOMAIN track.locks, v \in TrackValues :
          LET key == track.locks[handle].key
              r == update_substate(track, handle, v)
          IN  /\ track' = r.track
              /\ fault' = r.panic
              /\ last' = [op |-> "update_substate", key |-> key, handle |-> handle,
                          value |-> v]
              /\ hist' = [hist EXCEPT
                    !.written = IF r.panic = "none"
                                THEN MapInsert(@, key, [value |-> v, handle |-> handle])
                                ELSE @]
    /\ UNCHANGED <<phase, diff, store, frame, mixer, system, limits, moves, runtime, auth, objects, fees, ownership, reserve, sync, info>>

\* The kernel creates a substate once, under a node id fresh from allocate_node_id
CreateSubstate ==
    /\ Running /\ phase = "executing"
    /\ \E key \in TrackKeys \ (DOMAIN track.substate_db \cup DOMAIN track.loaded_substates),
          v \in TrackValues :
          /\ track' = create_substate(track, key, v)
          /\ last' = [op |-> "create_substate", key |-> key, value |-> v]
          /\ hist' = [hist EXCEPT !.touched = @ \cup {key}, !.created = @ \cup {key}]
    /\ UNCHANGED <<phase, fault, diff, store, frame, mixer, system, limits, moves, runtime, auth, objects, fees, ownership, reserve, sync, info>>

\* The transaction failed: its non force-write changes are rolled back
Revert ==
    /\ Running /\ phase = "executing"
    /\ track' = revert_non_force_write_changes(track)
    /\ phase' = "reverted"
    /\ last' = [op |-> "revert_non_force_write_changes"]
    /\ hist' = [hist EXCEPT !.written = EmptyMap]
    /\ UNCHANGED <<fault, diff, store, frame, mixer, system, limits, moves, runtime, auth, objects, fees, ownership, reserve, sync, info>>

Finalize ==
    /\ Running
    /\ diff' = finalize(track)
    /\ phase' = "finalized"
    /\ last' = [op |-> "finalize", reverted |-> (phase = "reverted")]
    /\ UNCHANGED <<track, fault, hist, store, frame, mixer, system, limits, moves, runtime, auth, objects, fees, ownership, reserve, sync, info>>

TrackNext ==
    \/ AcquireLock
    \/ ReleaseLock
    \/ ReadSubstate
    \/ UpdateSubstate
    \/ CreateSubstate
    \/ Revert
    \/ Finalize

(***************************************************************************)
(* Properties of the Track.                                                *)
(***************************************************************************)

\* C1 (as stated): a substate is held by one write lock or by read locks, never
\* both; acquire_lock with MUTABLE fails with SubstateLocked while any lock is
\* outstanding on the substate, and every acquire_lock fails with SubstateLocked
\* while a write lock is outstanding.
C1_Original ==
    /\ \A key \in TrackKeys :
          WriteHandlesOn(track, key) = {} \/ Cardinality(HandlesOn(track, key)) = 1
    /\ (last.op = "acquire_lock"
          /\ ((MUTABLE \in last.flags /\ last.held > 0) \/ last.held_write > 0))
        => last.result = Err("SubstateLocked")

\* C1 (amended): the exclusion holds and such an acquire_lock always fails; the
\* error is SubstateLocked unless the request carries UNMODIFIED_BASE and the
\* substate is new or already updated, in which case the UNMODIFIED_BASE check,
\* which runs first, returns its own error.
C1_LockExclusion ==
    /\ \A key \in TrackKeys :
          WriteHandlesOn(track, key) = {} \/ Cardinality(HandlesOn(track, key)) = 1
    /\ (last.op = "acquire_lock"
          /\ ((MUTABLE \in last.flags /\ last.held > 0) \/ last.held_write > 0))
        => /\ ~last.result.ok
           /\ last.same
           /\ last.result.error \in {"SubstateLocked", "LockUnmodifiedBaseOnNewSubstate",
                                     "LockUnmodifiedBaseOnOnUpdatedSubstate"}
           /\ last.result.error = "LockUnmodifiedBaseOnNewSubstate"
                => UNMODIFIED_BASE \in last.flags /\ last.key \in hist.created
           /\ last.result.error = "LockUnmodifiedBaseOnOnUpdatedSubstate"
                => UNMODIFIED_BASE \in last.flags /\ last.key \in hist.write_closed

\* C1 witness: a MUTABLE request on a read-locked substate was refused with SubstateLocked
C1_Witness ==
    /\ last.op = "acquire_lock" /\ MUTABLE \in last.flags
    /\ last.held > 0 /\ last.held_write = 0
    /\ last.result = Err("SubstateLocked")

\* C2: after revert_non_force_write_changes the Track holds exactly the substates
\* closed under a FORCE_WRITE write lock, each with the value of its latest such
\* close, and the diff finalize then produces is exactly those, as updates: no
\* value written without FORCE_WRITE and no created substate is in it.
C2_RevertKeepsForceWrites ==
    /\ phase = "reverted" =>
          /\ DOMAIN track.loaded_substates = DOMAIN hist.force_closed
          /\ \A k \in DOMAIN hist.force_closed :
                track.loaded_substates[k].substate = hist.force_closed[k]
          /\ finalize(track) =
                [k \in DOMAIN hist.force_closed |-> [kind |-> "Update", value |-> hist.force_closed[k]]]
    /\ (phase = "finalized" /\ last.reverted) =>
          /\ diff = [k \in DOMAIN hist.force_closed |-> [kind |-> "Update", value |-> hist.force_closed[k]]]
          /\ hist.created \cap DOMAIN diff = {}

\* C2 witness: a reverted transaction was finalized; it had force-written a value,
\* created a substate and closed a plain write lock
C2_Witness ==
    /\ phase = "finalized" /\ last.reverted
    /\ \E k \in DOMAIN diff : diff[k].value # TrackDb[k]
    /\ hist.created # {}
    /\ hist.write_closed \ DOMAIN hist.force_closed # {}

\* C4: acquire_lock with UNMODIFIED_BASE succeeds only on a substate not modified in
\* the transaction (not created, no update, no write lock closed on it); on a
\* created substate it fails with LockUnmodifiedBaseOnNewSubstate, and once a write
\* lock on the substate has been closed it fails with
\* LockUnmodifiedBaseOnOnUpdatedSubstate, at every later attempt.
C4_UnmodifiedBase ==
    (last.op = "acquire_lock" /\ UNMODIFIED_BASE \in last.flags) =>
        /\ last.result.ok =>
              last.key \notin (hist.created \cup hist.write_closed \cup DOMAIN hist.written)
        /\ last.key \in hist.created =>
              last.result = Err("LockUnmodifiedBaseOnNewSubstate")
        /\ last.key \in hist.write_closed \ hist.created =>
              last.result = Err("LockUnmodifiedBaseOnOnUpdatedSubstate")

\* C4 witness: a second MUTABLE|UNMODIFIED_BASE|FORCE_WRITE lock (lock_fee's flags) on a
\* substate already force-written was refused
C4_Witness ==
    /\ last.op = "acquire_lock"
    /\ last.flags = {MUTABLE, UNMODIFIED_BASE, FORCE_WRITE}
    /\ last.key \in DOMAIN hist.force_closed
    /\ last.result = Err("LockUnmodifiedBaseOnOnUpdatedSubstate")

\* C5 (as stated): finalize emits one record per substate touched (loaded or
\* created) in the transaction, Create iff created, Update otherwise.
C5_Original ==
    phase = "finalized" =>
        /\ DOMAIN diff = hist.touched
        /\ \A k \in DOMAIN diff :
              diff[k].kind = (IF k \in hist.created THEN "Create" ELSE "Update")

\* C5 (amended): finalize emits one record per substate the Track holds: every
\* substate touched when the transaction was not reverted, only touched ones
\* after a revert; Create iff created, Update otherwise.  (The diff is a map,
\* as in the code: a key has one record.)
C5_FinalizeRecords ==
    phase = "finalized" =>
        /\ DOMAIN diff = DOMAIN track.loaded_substates
        /\ DOMAIN diff \subseteq hist.touched
        /\ ~last.reverted => DOMAIN diff = hist.touched
        /\ \A k \in DOMAIN diff :
              /\ diff[k].kind = (IF k \in hist.created THEN "Create" ELSE "Update")
              /\ diff[k].value = track.loaded_substates[k].substate

\* C5 witness: an unreverted transaction that created one substate and loaded another
\* was finalized
C5_Witness ==
    /\ phase = "finalized" /\ ~last.reverted
    /\ \E k1, k2 \in DOMAIN diff : diff[k1].kind = "Create" /\ diff[k2].kind = "Update"

\* C6: after update_substate(h, v), read_substate through h and through any lock
\* acquired later on the substate returns v, until the next update of the
\* substate (a revert rolls the update back and ends it).
C6_ReadYourWrites ==
    /\ \A h \in DOMAIN track.locks :
          (fault = "none" /\ track.locks[h].key \in DOMAIN hist.written) =>
              read_substate(track, h) =
                  [panic |-> "none", value |-> hist.written[track.locks[h].key].value]
    /\ (last.op = "read_substate" /\ last.key \in DOMAIN hist.written) =>
          last.result = [panic |-> "none", value |-> hist.written[last.key].value]

\* C6 witness: a value other than the database's was read through a lock acquired
\* after the lock that wrote it
C6_Witness ==
    /\ last.op = "read_substate" /\ last.key \in DOMAIN hist.written
    /\ last.handle > hist.written[last.key].handle
    /\ last.key \in DOMAIN TrackDb /\ last.result.value # TrackDb[last.key]

\* C7: acquire_lock on a substate neither in the database nor created by the
\* transaction fails with NotFound, issues no handle and leaves the Track
\* unchanged; a substate in the database or created is never reported NotFound.
C7_NotFound ==
    /\ last.op = "acquire_lock" =>
          /\ last.key \notin (DOMAIN track.substate_db \cup hist.created) =>
                last.result = Err("NotFound") /\ last.same
          /\ last.key \in (DOMAIN track.substate_db \cup hist.created) =>
                last.result # Err("NotFound")
    /\ (fault = "none" /\ phase = "executing") =>
          \A key \in TrackKeys \ (DOMAIN track.substate_db \cup hist.created), flags \in LockFlagSets :
              acquire_lock(track, key, flags) = [track |-> track, result |-> Err("NotFound")]

\* C7 witness: a lock on an absent substate was refused while other locks are held,
\* and the lock table still has its handle
C7_Witness ==
    /\ last.op = "acquire_lock" /\ last.result = Err("NotFound")
    /\ DOMAIN track.locks # {}

\* C8 (as stated): in every reachable state the lock state of each substate agrees
\* with the lock table: Read(n) with n the number of outstanding (read) handles on
\* it, or Write with exactly one outstanding handle; no read counter is
\* decremented below zero.
C8_LockTableAgreement ==
    /\ \A key \in TrackKeys :
          IF key \in DOMAIN track.loaded_substates
          THEN \/ /\ track.loaded_substates[key].lock_state = Read(Cardinality(HandlesOn(track, key)))
                  /\ WriteHandlesOn(track, key) = {}
               \/ /\ track.loaded_substates[key].lock_state = Write
                  /\ Cardinality(HandlesOn(track, key)) = 1
                  /\ WriteHandlesOn(track, key) = HandlesOn(track, key)
          ELSE HandlesOn(track, key) = {}
    /\ fault # "attempt to subtract with overflow"
    /\ \A key \in DOMAIN track.loaded_substates :
          track.loaded_substates[key].lock_state # Read(usize_MAX)

\* update_substate through each outstanding handle: with MUTABLE it stores the
\* value, without it it panics and leaves the Track as it is
UpdateNeedsMutable ==
    fault = "none" =>
        \A h \in DOMAIN track.locks, v \in TrackValues :
            IF MUTABLE \in track.locks[h].flags
            THEN track.locks[h].key \in DOMAIN track.loaded_substates =>
                    /\ update_substate(track, h, v).panic = "none"
                    /\ update_substate(track, h, v).track.loaded_substates[track.locks[h].key].substate = v
            ELSE update_substate(track, h, v) = [track |-> track, panic |-> "No write permission"]

\* The substates that hold a value written by update_substate and not rolled back
WrittenLoaded == DOMAIN hist.written \cap DOMAIN track.loaded_substates

\* C31 (as stated): update_substate is accepted only through a handle opened
\* with MUTABLE, through any other handle it panics and the stored value is
\* unchanged; once an update has been made the meta-state of the entry is
\* Updated.
C31_Original ==
    /\ UpdateNeedsMutable
    /\ fault = "none" =>
          \A key \in WrittenLoaded : track.loaded_substates[key].meta_state.tag = "Updated"

\* C31 (amended): update_substate is accepted only through a handle opened with
\* MUTABLE, through any other handle it panics and the stored value is
\* unchanged; the update itself leaves the meta-state alone: the meta-state of
\* a substate created in the transaction stays New, and that of a loaded
\* substate is Updated once the write lock of the update, or an earlier write
\* lock on it, has been released, and Loaded until then.
C31_UpdatedAtRelease ==
    /\ UpdateNeedsMutable
    /\ fault = "none" =>
          \A key \in WrittenLoaded :
              IF key \in hist.created
              THEN track.loaded_substates[key].meta_state = New
              ELSE IF hist.written[key].handle \notin DOMAIN track.locks
                      \/ key \in hist.write_closed
              THEN track.loaded_substates[key].meta_state.tag = "Updated"
              ELSE track.loaded_substates[key].meta_state = Loaded

\* C31 witness: the write lock of an update of a database substate has been
\* released, the entry is Updated and holds the value written, while a handle
\* without MUTABLE is outstanding
C31_Witness ==
    /\ fault = "none"
    /\ \E key \in WrittenLoaded \ hist.created :
          /\ hist.written[key].handle \notin DOMAIN track.locks
          /\ track.loaded_substates[key].meta_state.tag = "Updated"
          /\ track.loaded_substates[key].substate = hist.written[key].value
          /\ hist.written[key].value # TrackDb[key]
    /\ \E h \in DOMAIN track.locks : MUTABLE \notin track.locks[h].flags

\* Sequences of acquire_lock and release_lock calls only
LockNext ==
    \/ AcquireLock
    \/ ReleaseLock

\* The errors of acquire_lock
AcquireLockErrors ==
    {Err("NotFound"), Err("SubstateLocked"), Err("LockUnmodifiedBaseOnNewSubstate"),
     Err("LockUnmodifiedBaseOnOnUpdatedSubstate")}

\* C36: an acquire_lock call that returns an error (NotFound, SubstateLocked,
\* LockUnmodifiedBaseOnNewSubstate or LockUnmodifiedBaseOnOnUpdatedSubstate)
\* issues no handle and leaves every lock state, the lock table, every
\* meta-state and every stored value of the Track unchanged, so the caller can
\* continue using the Track: every handle it holds still reads its substate.
C36_FailedLockChangesNothing ==
    (last.op = "acquire_lock" /\ ~last.result.ok) =>
        /\ last.result \in AcquireLockErrors
        /\ last.same
        /\ fault = "none"
        /\ \A h \in DOMAIN track.locks : read_substate(track, h).panic = "none"

\* C36 witness: a request with UNMODIFIED_BASE on a substate that a write lock
\* had updated was refused, while another handle is held on the Track
C36_Witness ==
    /\ last.op = "acquire_lock"
    /\ last.result = Err("LockUnmodifiedBaseOnOnUpdatedSubstate")
    /\ last.same
    /\ last.key \in hist.write_closed
    /\ DOMAIN track.locks # {}

\* C37: after revert_non_force_write_changes, every handle still present in the
\* lock table refers to a substate that is still loaded, so read_substate and
\* release_lock on any outstanding handle do not hit the fatal "Substate missing
\* for valid lock handle" error, and the lock table still agrees with the lock
\* states: each substate's lock state counts the handles held on it.
C37_HandlesSurviveRevert ==
    /\ fault # "Substate missing for valid lock handle"
    /\ (fault = "none" /\ phase = "reverted") =>
          \A h \in DOMAIN track.locks :
             /\ track.locks[h].key \in DOMAIN track.loaded_substates
             /\ read_substate(track, h).panic = "none"
             /\ release_lock(track, h, TRUE).panic # "Substate missing for valid lock handle"
             /\ track.loaded_substates[track.locks[h].key].lock_state \in
                   {Write, Read(Cardinality(HandlesOn(track, track.locks[h].key)))}

SpecTrack == Init /\ [][TrackNext]_vars

SpecLocks == Init /\ [][LockNext]_vars

(***************************************************************************)
(* SystemModuleMixer.  enabled_modules is a bit set; an event of the       *)
(* kernel is handed to the enabled modules one after the other, and a      *)
(* module may veto it by returning an error.                               *)
(***************************************************************************)
MaxFailing == 2     \* modules that would return an error on one event

KERNEL_TRACE == 1

LIMITS == 2

COSTING == 4

AUTH == 8

NODE_MOVE == 16

TRANSACTION_RUNTIME == 32

TRANSACTION_EVENTS == 64

EXECUTION_TRACE == 128

EnabledModules == 0..255

\* bitflags contains, for a flag of one bit
contains(modules, flag) == (modules \div flag) % 2 = 1

for_genesis_transaction == LIMITS + NODE_MOVE + TRANSACTION_RUNTIME + TRANSACTION_EVENTS

for_system_transaction == LIMITS + AUTH + NODE_MOVE + TRANSACTION_RUNTIME + TRANSACTION_EVENTS

for_notarized_transaction ==
    LIMITS + COSTING + AUTH + NODE_MOVE + TRANSACTION_RUNTIME + TRANSACTION_EVENTS

for_test_transaction == for_notarized_transaction + KERNEL_TRACE

for_preview == for_notarized_transaction + EXECUTION_TRACE

Modules ==
    {"KernelTrace", "Limits", "Costing", "Auth", "NodeMove", "TransactionRuntime",
     "TransactionEvents", "ExecutionTrace"}

\* The EnabledModules flag that switches a module on
FlagOf(module) ==
    CASE module = "KernelTrace" -> KERNEL_TRACE
      [] module = "Limits" -> LIMITS
      [] module = "Costing" -> COSTING
      [] module = "Auth" -> AUTH
      [] module = "NodeMove" -> NODE_MOVE
      [] module = "TransactionRuntime" -> TRANSACTION_RUNTIME
      [] module = "TransactionEvents" -> TRANSACTION_EVENTS
      [] module = "ExecutionTrace" -> EXECUTION_TRACE

\* The order of the "if modules.contains(..) { Module::hook(..)?; }" statements
\* the internal_call_dispatch macro expands to
DispatchOrder ==
    <<"KernelTrace", "Limits", "Costing", "Auth", "NodeMove", "TransactionRuntime",
      "TransactionEvents", "ExecutionTrace">>

\* The order of the same statements in the hand-written on_init
InitOrder ==
    <<"ExecutionTrace", "TransactionEvents", "TransactionRuntime", "NodeMove", "Auth",
      "Costing", "Limits", "KernelTrace">>

OkUnit == [ok |-> TRUE]

\* A chain of "if enabled { hook()?; }" statements from statement i on: the modules
\* invoked so far and the result; failing are the modules whose hook returns Err
RECURSIVE RunHooks(_, _, _, _, _)
RunHooks(order, modules, failing, i, invoked) ==
    IF i > Len(order)
    THEN [invoked |-> invoked, result |-> OkUnit]
    ELSE IF ~contains(modules, FlagOf(order[i]))
    THEN RunHooks(order, modules, failing, i + 1, invoked)
    ELSE IF order[i] \in failing
    THEN [invoked |-> Append(invoked, order[i]), result |-> Err(order[i])]
    ELSE RunHooks(order, modules, failing, i + 1, Append(invoked, order[i]))

\* Faulty variant of internal_call_dispatch: the statements in the order of on_init
internal_call_dispatch_InitOrder(modules, failing) ==
    RunHooks(InitOrder, modules, failing, 1, <<>>)

internal_call_dispatch(modules, failing) ==
    RunHooks(DispatchOrder, modules, failing, 1, <<>>)

\* Faulty variant of on_init: the statements in the order of the dispatch macro
on_init_DispatchOrder(modules, failing) ==
    RunHooks(DispatchOrder, modules, failing, 1, <<>>)

on_init(modules, failing) == RunHooks(InitOrder, modules, failing, 1, <<>>)

on_teardown(modules, failing) == internal_call_dispatch(modules, failing)

\* Faulty variant of after_invoke: the modules in the reverse of the macro's order
after_invoke_Reversed(modules, failing) ==
    RunHooks(InitOrder, modules, failing, 1, <<>>)

after_invoke(modules, failing) == internal_call_dispatch(modules, failing)

\* The hooks of SystemModuleMixer that expand internal_call_dispatch
DispatchedEvents ==
    {"on_teardown", "before_invoke", "before_push_frame", "on_execution_start",
     "on_execution_finish", "after_pop_frame", "after_invoke", "on_allocate_node_id",
     "before_create_node", "after_create_node", "before_drop_node", "after_drop_node",
     "before_lock_substate", "after_lock_substate", "on_read_substate",
     "on_write_substate", "on_drop_lock", "on_scan_substate", "on_set_substate",
     "on_take_substates"}

\* The events the kernel fires before a side effect, each with the event it
\* fires after that side effect
BeforeEvents ==
    {"before_invoke", "before_push_frame", "before_create_node", "before_drop_node",
     "before_lock_substate"}

AfterOf(event) ==
    CASE event = "before_invoke" -> "after_invoke"
      [] event = "before_push_frame" -> "after_pop_frame"
      [] event = "before_create_node" -> "after_create_node"
      [] event = "before_drop_node" -> "after_drop_node"
      [] event = "before_lock_substate" -> "after_lock_substate"

AfterEvents == {AfterOf(e) : e \in BeforeEvents}

\* The events the kernel can fire next: the after event of the operation whose
\* before event has passed, or else any event that opens no such pair
EventsDue(pending) ==
    IF pending = "none" THEN DispatchedEvents \ AfterEvents ELSE {AfterOf(pending)}

\* The body of the hook SystemModuleMixer runs for an event
hook(event, modules, failing) ==
    CASE event = "on_teardown" -> on_teardown(modules, failing)
      [] event = "after_invoke" -> after_invoke(modules, failing)
      [] OTHER -> internal_call_dispatch(modules, failing)

FailingSets == {f \in SUBSET Modules : Cardinality(f) <= MaxFailing}

\* SystemModuleMixer::new with any enabled_modules; no event dispatched yet
InitMixer ==
    /\ mixer \in [enabled_modules : EnabledModules, event : {"new"}, failing : {{}},
                  invoked : {<<>>}, result : {OkUnit}, initialised : {FALSE},
                  init_invoked : {<<>>}, pending : {"none"}, before_invoked : {<<>>}]
    /\ track = TrackNew(EmptyMap)
    /\ phase = "unused"
    /\ fault = "none"
    /\ last = [op |-> "unused"]
    /\ diff = EmptyMap
    /\ hist = HistInit
    /\ store = TrackNew(EmptyMap)
    /\ frame = [status |-> "unused"]
    /\ system = [event |-> "unused"]
    /\ limits = [event |-> "unused"]
    /\ moves = [event |-> "unused"]
    /\ runtime = [event |-> "unused"]
    /\ auth = [event |-> "unused"]
    /\ objects = [event |-> "unused"]
    /\ fees = [event |-> "unused"]
    /\ ownership = [event |-> "unused"]
    /\ reserve = [event |-> "unused"]
    /\ sync = [event |-> "unused"]
    /\ info = [event |-> "unused"]

\* The kernel fires an event: one of the hooks that expand internal_call_dispatch
Dispatch ==
    /\ mixer.event = "new"
    /\ mixer.initialised
    /\ \E event \in EventsDue(mixer.pending), failing \in FailingSets :
          LET r == hook(event, mixer.enabled_modules, failing)
          IN  mixer' = [mixer EXCEPT !.event = event, !.failing = failing,
                                     !.invoked = r.invoked, !.result = r.result]
    /\ UNCHANGED <<track, phase, fault, last, diff, hist, store, frame, system, limits, moves, runtime, auth, objects, fees, ownership, reserve, sync, info>>

\* The kernel boots: on_init runs once, before any other event
OnInit ==
    /\ mixer.event = "new"
    /\ ~mixer.initialised
    /\ \E failing \in FailingSets :
          LET r == on_init(mixer.enabled_modules, failing)
          IN  mixer' = [mixer EXCEPT !.event = "on_init", !.failing = failing,
                                     !.invoked = r.invoked, !.result = r.result,
                                     !.initialised = r.result.ok,
                                     !.init_invoked = r.invoked]
    /\ UNCHANGED <<track, phase, fault, last, diff, hist, store, frame, system, limits, moves, runtime, auth, objects, fees, ownership, reserve, sync, info>>

\* The kernel has taken the result of the event; the mixer waits for the next
\* one. A before event that passed leaves its after event due; a failed on_init
\* ends the transaction
Resume ==
    /\ mixer.event # "new"
    /\ mixer.initialised
    /\ LET opens == mixer.event \in BeforeEvents /\ mixer.result.ok
       IN  mixer' = [mixer EXCEPT !.event = "new", !.failing = {}, !.invoked = <<>>,
                                  !.result = OkUnit,
                                  !.pending = IF opens THEN mixer.event ELSE "none",
                                  !.before_invoked = IF opens THEN mixer.invoked ELSE <<>>]
    /\ UNCHANGED <<track, phase, fault, last, diff, hist, store, frame, system, limits, moves, runtime, auth, objects, fees, ownership, reserve, sync, info>>

MixerNext ==
    \/ Dispatch
    \/ OnInit
    \/ Resume

\* The place of a module in the declared order
PlaceOf(module) == CHOOSE i \in 1..Len(DispatchOrder) : DispatchOrder[i] = module

EnabledIn(modules) == {m \in Modules : contains(modules, FlagOf(m))}

\* C10: for every event SystemModuleMixer hands to internal_call_dispatch (every
\* hook but on_init), only modules whose bit is set in enabled_modules are
\* invoked, each once, in the order KernelTrace, Limits, Costing, Auth, NodeMove,
\* TransactionRuntime, TransactionEvents, ExecutionTrace; when no invoked module
\* returns an error all enabled modules are invoked and the result is Ok;
\* otherwise the first module that returns an error is the last one invoked and
\* its error is the result.
C10_DispatchOrder ==
    mixer.event \in DispatchedEvents =>
        LET inv == mixer.invoked
            enabled == EnabledIn(mixer.enabled_modules)
            invoked == {inv[i] : i \in 1..Len(inv)}
        IN  /\ invoked \subseteq enabled
            /\ \A i, j \in 1..Len(inv) : i < j => PlaceOf(inv[i]) < PlaceOf(inv[j])
            /\ IF enabled \cap mixer.failing = {}
               THEN invoked = enabled /\ mixer.result = OkUnit
               ELSE LET first == CHOOSE m \in enabled \cap mixer.failing :
                                     \A o \in enabled \cap mixer.failing : PlaceOf(m) <= PlaceOf(o)
                    IN  /\ invoked = {m \in enabled : PlaceOf(m) <= PlaceOf(first)}
                        /\ inv[Len(inv)] = first
                        /\ mixer.result = Err(first)

\* C10 witness: a notarized transaction's before_push_frame on which Costing and
\* NodeMove would both return an error: Limits and Costing ran, Costing's error is
\* the result
C10_Witness ==
    /\ mixer.event = "before_push_frame"
    /\ mixer.enabled_modules = for_notarized_transaction
    /\ mixer.failing = {"Costing", "NodeMove"}
    /\ mixer.invoked = <<"Limits", "Costing">>
    /\ mixer.result = Err("Costing")

\* C11 as stated: on_init initialises the enabled modules in the order limits,
\* costing, auth, node-move, transaction-runtime, events, trace.
C11_Original ==
    mixer.event = "on_init" =>
        LET rank == [m \in Modules |->
                        CASE m = "Limits" -> 1
                          [] m = "Costing" -> 2
                          [] m = "Auth" -> 3
                          [] m = "NodeMove" -> 4
                          [] m = "TransactionRuntime" -> 5
                          [] m = "TransactionEvents" -> 6
                          [] m \in {"KernelTrace", "ExecutionTrace"} -> 7]
        IN  \A i, j \in 1..Len(mixer.invoked) :
                i < j => rank[mixer.invoked[i]] <= rank[mixer.invoked[j]]

\* The place of a module in a sequence of modules that holds it once
PlaceIn(seq, module) == CHOOSE i \in 1..Len(seq) : seq[i] = module

\* C11 amended: on_init initialises the enabled modules, and only those, in the
\* order execution-trace, events, transaction-runtime, node-move, auth, costing,
\* limits, kernel-trace, stopping at the first module that returns an error.
C11_InitOrder ==
    mixer.event = "on_init" =>
        LET inv == mixer.invoked
            order == <<"ExecutionTrace", "TransactionEvents", "TransactionRuntime",
                       "NodeMove", "Auth", "Costing", "Limits", "KernelTrace">>
            enabled == EnabledIn(mixer.enabled_modules)
            invoked == {inv[i] : i \in 1..Len(inv)}
        IN  /\ invoked \subseteq enabled
            /\ \A i, j \in 1..Len(inv) : i < j => PlaceIn(order, inv[i]) < PlaceIn(order, inv[j])
            /\ mixer.result.ok <=> enabled \cap mixer.failing = {}
            /\ mixer.result.ok => invoked = enabled
            /\ ~mixer.result.ok =>
                  /\ mixer.result = Err(inv[Len(inv)])
                  /\ invoked \cap mixer.failing = {inv[Len(inv)]}
                  /\ \A m \in enabled \ invoked :
                        PlaceIn(order, m) > PlaceIn(order, inv[Len(inv)])

\* C11 witness: on_init of a notarized transaction with no failing module has
\* initialised events first and limits last
C11_Witness ==
    /\ mixer.event = "on_init"
    /\ mixer.enabled_modules = for_notarized_transaction
    /\ mixer.result.ok
    /\ mixer.invoked = <<"TransactionEvents", "TransactionRuntime", "NodeMove", "Auth",
                         "Costing", "Limits">>

RECURSIVE Reverse(_)
Reverse(seq) == IF seq = <<>> THEN <<>> ELSE Append(Reverse(Tail(seq)), Head(seq))

\* C12: on_teardown invokes the enabled modules in exactly the reverse of the
\* order in which on_init invoked them: any two modules on_teardown invokes were
\* invoked by on_init in the opposite order, and an on_teardown that returns Ok
\* has invoked the modules of on_init last to first.
C12_TeardownReversesInit ==
    mixer.event = "on_teardown" =>
        LET inv == mixer.invoked
        IN  /\ \A i \in 1..Len(inv) : \E k \in 1..Len(mixer.init_invoked) :
                  mixer.init_invoked[k] = inv[i]
            /\ \A i, j \in 1..Len(inv) :
                  i < j => PlaceIn(mixer.init_invoked, inv[i]) > PlaceIn(mixer.init_invoked, inv[j])
            /\ mixer.result.ok => inv = Reverse(mixer.init_invoked)

\* C12 witness: a preview transaction whose on_init ran execution-trace first and
\* limits last, and whose on_teardown ran limits first and execution-trace last
C12_Witness ==
    /\ mixer.event = "on_teardown"
    /\ mixer.enabled_modules = for_preview
    /\ mixer.result.ok
    /\ mixer.init_invoked[1] = "ExecutionTrace"
    /\ mixer.init_invoked[Len(mixer.init_invoked)] = "Limits"
    /\ mixer.invoked[1] = "Limits"
    /\ mixer.invoked[Len(mixer.invoked)] = "ExecutionTrace"
    /\ Len(mixer.invoked) = 7

\* C13 as stated: for the events fired after a side effect (after_invoke,
\* after_pop_frame, after_create_node, after_drop_node, after_lock_substate) the
\* enabled modules are invoked in the reverse of the order used for the event
\* fired before the side effect.
C13_Original ==
    mixer.event \in AfterEvents =>
        \A i, j \in 1..Len(mixer.invoked) :
            i < j => PlaceIn(mixer.before_invoked, mixer.invoked[i])
                        > PlaceIn(mixer.before_invoked, mixer.invoked[j])

\* C13 amended: for the events fired after a side effect (after_invoke,
\* after_pop_frame, after_create_node, after_drop_node, after_lock_substate) the
\* enabled modules are invoked in the same order as for the event fired before
\* the side effect.
C13_SameOrder ==
    mixer.event \in AfterEvents =>
        LET inv == mixer.invoked
        IN  /\ mixer.event = AfterOf(mixer.pending)
            /\ Len(inv) <= Len(mixer.before_invoked)
            /\ \A i \in 1..Len(inv) : inv[i] = mixer.before_invoked[i]
            /\ mixer.result.ok => inv = mixer.before_invoked

\* C13 witness: an after_invoke of a notarized transaction that ran limits,
\* costing and auth in that order, as its before_invoke did, and stopped at an
\* error of auth
C13_Witness ==
    /\ mixer.event = "after_invoke"
    /\ mixer.pending = "before_invoke"
    /\ mixer.enabled_modules = for_notarized_transaction
    /\ mixer.before_invoked = <<"Limits", "Costing", "Auth", "NodeMove",
                                "TransactionRuntime", "TransactionEvents">>
    /\ mixer.invoked = <<"Limits", "Costing", "Auth">>
    /\ mixer.result = Err("Auth")

SpecMixer == InitMixer /\ [][MixerNext]_vars

(***************************************************************************)
(* Native operations on a fungible vault.  The vault's fields and its      *)
(* resource manager's divisibility are substates of the store; every       *)
(* operation is the sequence of lock, read, write and drop calls of its    *)
(* code.  Amounts are the integers Decimal wraps (units of 10^-18).        *)
(***************************************************************************)
MaxAmount == 2          \* amounts asked of the vault are at most this
MaxOps == 3             \* invocations per transaction
MaxProofs == 1          \* proofs alive in a transaction
InitialBalance == 2     \* liquid balance of the vault in the database

RADIX_TOKEN == "RADIX_TOKEN"

LiquidFungible == "LiquidFungible"

LockedFungible == "LockedFungible"

Divisibility == "Divisibility"

\* The result of a call that returns a value
Done(v) == [ok |-> TRUE, value |-> v]

\* A panic (expect, unwrap) inside a call
Panic(msg) == [ok |-> FALSE, error |-> "panic", panic |-> msg]

RECURSIVE Pow10(_)
Pow10(n) == IF n = 0 THEN 1 ELSE 10 * Pow10(n - 1)

check_amount(amount, divisibility) ==
    amount >= 0 /\ amount % Pow10(18 - divisibility) = 0

\* sys_drop_lock: the kernel releases the handle on the store
sys_drop_lock(t, handle) == release_lock(t, handle, TRUE).track

sys_read_substate_typed(t, handle) == read_substate(t, handle).value

sys_write_substate_typed(t, handle, v) == update_substate(t, handle, v).track

\* get_divisibility from the lock_parent_field call on: a is what acquire_lock answered
get_divisibility_locked(a) ==
    IF ~a.result.ok
    THEN [track |-> a.track, result |-> a.result]
    ELSE [track |-> sys_drop_lock(a.track, a.result.handle),
          result |-> Done(sys_read_substate_typed(a.track, a.result.handle))]

get_divisibility(t) == get_divisibility_locked(acquire_lock(t, Divisibility, read_only))

\* LiquidFungibleResource::take_by_amount on a balance: the balance left, or an error
take_by_amount(balance, amount) ==
    IF balance < amount THEN Err("InsufficientBalance") ELSE Done(balance - amount)

\* LockedFungibleResource::amount: the largest amount locked, zero when none is
LockedAmount(locked) ==
    IF DOMAIN locked = {}
    THEN 0
    ELSE CHOOSE a \in DOMAIN locked : \A b \in DOMAIN locked : b <= a

\* Runtime::emit_event, which the modules may refuse
emit_event(t, emit_ok, v) ==
    IF emit_ok THEN [track |-> t, result |-> Done(v)]
    ELSE [track |-> t, result |-> Err("EmitEventError")]

\* FungibleVault::take once the balance is read: taken is what take_by_amount answered
FungibleVault_take_flush(t, handle, taken, amount, emit_ok) ==
    IF ~taken.ok
    THEN [track |-> t, result |-> Err("ResourceError")]
    ELSE emit_event(sys_drop_lock(sys_write_substate_typed(t, handle, taken.value), handle),
                    emit_ok, amount)

\* FungibleVault::take from the lock_field call on: a is what acquire_lock answered
FungibleVault_take_locked(a, amount, emit_ok) ==
    IF ~a.result.ok
    THEN [track |-> a.track, result |-> a.result]
    ELSE FungibleVault_take_flush(
            a.track, a.result.handle,
            take_by_amount(sys_read_substate_typed(a.track, a.result.handle), amount),
            amount, emit_ok)

\* FungibleVault::take
FungibleVault_take(t, amount, emit_ok) ==
    FungibleVault_take_locked(acquire_lock(t, LiquidFungible, {MUTABLE}), amount, emit_ok)

\* FungibleVault::put from the lock_field call on: a is what acquire_lock answered
FungibleVault_put_locked(a, amount, emit_ok) ==
    IF ~a.result.ok
    THEN [track |-> a.track, result |-> a.result]
    ELSE emit_event(
            sys_drop_lock(
                sys_write_substate_typed(
                    a.track, a.result.handle,
                    sys_read_substate_typed(a.track, a.result.handle) + amount),
                a.result.handle),
            emit_ok, 0)

\* FungibleVault::put
FungibleVault_put(t, amount, emit_ok) ==
    IF amount = 0
    THEN [track |-> t, result |-> Done(0)]
    ELSE FungibleVault_put_locked(acquire_lock(t, LiquidFungible, {MUTABLE}), amount, emit_ok)

\* entry(amount).or_default().add_assign(1) on the map of locked amounts
IncreaseLockCount(locked, amount) ==
    MapInsert(locked, amount, IF amount \in DOMAIN locked THEN locked[amount] + 1 ELSE 1)

\* FungibleVault::lock_amount after the take from liquid: tk is what it answered.
\* The handle on the locked amounts is not dropped
FungibleVault_lock_amount_count(tk, handle, locked, amount) ==
    IF ~tk.result.ok
    THEN tk
    ELSE [track |-> sys_write_substate_typed(tk.track, handle, IncreaseLockCount(locked, amount)),
          result |-> Done(amount)]

\* FungibleVault::lock_amount once the locked amounts are read
FungibleVault_lock_amount_read(t, handle, locked, amount, emit_ok) ==
    FungibleVault_lock_amount_count(
        IF amount > LockedAmount(locked)
        THEN FungibleVault_take(t, amount - LockedAmount(locked), emit_ok)
        ELSE [track |-> t, result |-> Done(0)],
        handle, locked, amount)

\* FungibleVault::lock_amount from the lock_field call on: a is what acquire_lock answered
FungibleVault_lock_amount_locked(a, amount, emit_ok) ==
    IF ~a.result.ok
    THEN [track |-> a.track, result |-> a.result]
    ELSE FungibleVault_lock_amount_read(
            a.track, a.result.handle,
            sys_read_substate_typed(a.track, a.result.handle), amount, emit_ok)

\* FungibleVault::lock_amount
FungibleVault_lock_amount(t, amount, emit_ok) ==
    FungibleVault_lock_amount_locked(acquire_lock(t, LockedFungible, {MUTABLE}), amount, emit_ok)

\* remove(amount), then insert(amount, cnt - 1) when cnt > 1
DecreaseLockCount(locked, amount) ==
    IF locked[amount] > 1
    THEN MapInsert(locked, amount, locked[amount] - 1)
    ELSE MapRemove(locked, amount)

\* Faulty variant of FungibleVault_unlock_amount_read: what is no longer locked is
\* not put back into the liquid balance
FungibleVault_unlock_amount_read_NoPut(t, handle, locked, amount, emit_ok) ==
    IF amount \notin DOMAIN locked
    THEN [track |-> t, result |-> Panic("Attempted to unlock an amount that is not locked")]
    ELSE [track |-> sys_write_substate_typed(t, handle, DecreaseLockCount(locked, amount)),
          result |-> Done(0)]

\* FungibleVault::unlock_amount once the locked amounts are read.
\* The handle on the locked amounts is not dropped
FungibleVault_unlock_amount_read(t, handle, locked, amount, emit_ok) ==
    IF amount \notin DOMAIN locked
    THEN [track |-> t, result |-> Panic("Attempted to unlock an amount that is not locked")]
    ELSE FungibleVault_put(
            sys_write_substate_typed(t, handle, DecreaseLockCount(locked, amount)),
            LockedAmount(locked) - LockedAmount(DecreaseLockCount(locked, amount)),
            emit_ok)

\* FungibleVault::unlock_amount from the lock_field call on
FungibleVault_unlock_amount_locked(a, amount, emit_ok) ==
    IF ~a.result.ok
    THEN [track |-> a.track, result |-> a.result]
    ELSE FungibleVault_unlock_amount_read(
            a.track, a.result.handle,
            sys_read_substate_typed(a.track, a.result.handle), amount, emit_ok)

\* FungibleVault::unlock_amount
FungibleVault_unlock_amount(t, amount, emit_ok) ==
    FungibleVault_unlock_amount_locked(acquire_lock(t, LockedFungible, {MUTABLE}), amount, emit_ok)

\* A field of the vault read as liquid_amount and locked_amount read it: locked
\* for reading, read, and the lock dropped
read_field(a) ==
    IF ~a.result.ok THEN a.result ELSE Done(sys_read_substate_typed(a.track, a.result.handle))

\* FungibleVault::liquid_amount
liquid_amount(t) == read_field(acquire_lock(t, LiquidFungible, read_only))

\* FungibleVault::locked_amount
locked_amount(t) ==
    LET locked == read_field(acquire_lock(t, LockedFungible, read_only))
    IN  IF locked.ok THEN Done(LockedAmount(locked.value)) ELSE locked

\* FungibleVault::get_amount
get_amount(t) ==
    IF ~liquid_amount(t).ok THEN liquid_amount(t)
    ELSE IF ~locked_amount(t).ok THEN locked_amount(t)
    ELSE Done(liquid_amount(t).value + locked_amount(t).value)

\* FungibleVaultBlueprint::take from the amount check on: d is what get_divisibility answered
take_checked(d, amount, emit_ok) ==
    IF ~d.result.ok
    THEN d
    ELSE IF ~check_amount(amount, d.result.value)
    THEN [track |-> d.track, result |-> Err("InvalidAmount")]
    ELSE FungibleVault_take(d.track, amount, emit_ok)

\* FungibleVaultBlueprint::take; the bucket it creates goes to the worktop
take(t, amount, emit_ok) == take_checked(get_divisibility(t), amount, emit_ok)

\* FungibleVaultBlueprint::put of a bucket holding amount
put(t, amount, emit_ok) == FungibleVault_put(t, amount, emit_ok)

\* Faulty variant of LockFeeFlags: FORCE_WRITE is missing
LockFeeFlags_NoForceWrite == {MUTABLE, UNMODIFIED_BASE}

\* The flags lock_fee opens the liquid balance with
LockFeeFlags == {MUTABLE, UNMODIFIED_BASE, FORCE_WRITE}

\* The answers of the fee reserve to credit_cost_units(fee): an error, or the change
FeeReserveAnswers(amount) == {Err("FeeReserveError")} \cup {Done(c) : c \in 0..amount}

\* Faulty variant of lock_fee_flush: the change the fee reserve returned is not
\* put back into the vault
lock_fee_flush_NoChange(t, vault_handle, left, amount, change, emit_ok) ==
    [track |-> sys_drop_lock(sys_write_substate_typed(t, vault_handle, left), vault_handle),
     result |-> IF emit_ok THEN Done(0) ELSE Err("EmitEventError"),
     credited |-> amount - change]

\* lock_fee once the fee is taken and the fee reserve has answered with the change
lock_fee_flush(t, vault_handle, left, amount, change, emit_ok) ==
    [track |-> sys_drop_lock(sys_write_substate_typed(t, vault_handle, left + change),
                             vault_handle),
     result |-> IF emit_ok THEN Done(0) ELSE Err("EmitEventError"),
     credited |-> amount - change]

\* lock_fee once the liquid balance is locked: fee is what take_by_amount answered
lock_fee_take(t, vault_handle, fee, amount, answer, emit_ok) ==
    IF ~fee.ok
    THEN [track |-> t, result |-> Err("LockFeeInsufficientBalance"), credited |-> 0]
    ELSE IF ~answer.ok
    THEN [track |-> t, result |-> answer, credited |-> 0]
    ELSE lock_fee_flush(t, vault_handle, fee.value, amount, answer.value, emit_ok)

\* lock_fee from the lock_field call on: a is what acquire_lock answered
lock_fee_locked(a, amount, answer, emit_ok) ==
    IF ~a.result.ok
    THEN [track |-> a.track, result |-> a.result, credited |-> 0]
    ELSE lock_fee_take(a.track, a.result.handle,
                       take_by_amount(sys_read_substate_typed(a.track, a.result.handle), amount),
                       amount, answer, emit_ok)

\* lock_fee from the amount check on: d is what get_divisibility answered
lock_fee_checked(d, amount, answer, emit_ok) ==
    IF ~d.result.ok
    THEN [track |-> d.track, result |-> d.result, credited |-> 0]
    ELSE IF ~check_amount(amount, d.result.value)
    THEN [track |-> d.track, result |-> Err("InvalidAmount"), credited |-> 0]
    ELSE lock_fee_locked(acquire_lock(d.track, LiquidFungible, LockFeeFlags),
                         amount, answer, emit_ok)

\* FungibleVaultBlueprint::lock_fee; credited is what the fee reserve kept
lock_fee(t, resource_address, amount, answer, emit_ok) ==
    IF resource_address # RADIX_TOKEN
    THEN [track |-> t, result |-> Err("LockFeeNotRadixToken"), credited |-> 0]
    ELSE lock_fee_checked(get_divisibility(t), amount, answer, emit_ok)

\* create_proof_by_amount from the amount check on
create_proof_by_amount_checked(d, amount, emit_ok) ==
    IF ~d.result.ok
    THEN d
    ELSE IF ~check_amount(amount, d.result.value)
    THEN [track |-> d.track, result |-> Err("InvalidAmount")]
    ELSE FungibleVault_lock_amount(d.track, amount, emit_ok)

\* FungibleVaultBlueprint::create_proof_by_amount, up to the new_object call
create_proof_by_amount(t, amount, emit_ok) ==
    create_proof_by_amount_checked(get_divisibility(t), amount, emit_ok)

(***************************************************************************)
(* Operations on substates of the heap: the Info substate of a proof, and  *)
(* the TransactionRuntime substate.  heap_locks are the handles the kernel *)
(* has open on them.                                                       *)
(***************************************************************************)
MoveCallees == {"ResourceManagerFunction", "AuthZoneMethod", "OtherMethod", "OtherFunction"}

MovedNodeKinds == {"Proof", "OtherObject", "KeyValueStore", "GlobalObject"}

ProofInfoHandle(proof) == [substate |-> "ProofInfo", proof |-> proof]

RuntimeHandle == [substate |-> "TransactionRuntime", proof |-> 0]

\* Faulty variant of prepare_move_downstream: a proof moved to an auth zone is
\* restricted like any other
prepare_move_downstream_AlwaysRestrict(proofs, heap_locks, kind, proof, callee) ==
    IF kind \in {"KeyValueStore", "GlobalObject"}
    THEN [proofs |-> proofs, heap_locks |-> heap_locks, result |-> Err("CantMoveDownstream")]
    ELSE IF kind # "Proof" \/ callee = "ResourceManagerFunction"
    THEN [proofs |-> proofs, heap_locks |-> heap_locks, result |-> Done(0)]
    ELSE IF proofs[proof].restricted
    THEN [proofs |-> proofs, heap_locks |-> heap_locks \cup {ProofInfoHandle(proof)},
          result |-> Err("CantMoveDownstream")]
    ELSE [proofs |-> [proofs EXCEPT ![proof].restricted = TRUE],
          heap_locks |-> heap_locks, result |-> Done(0)]

\* Faulty variant of prepare_move_downstream: a restricted proof is moved on
prepare_move_downstream_NoRestrictedCheck(proofs, heap_locks, kind, proof, callee) ==
    IF kind \in {"KeyValueStore", "GlobalObject"}
    THEN [proofs |-> proofs, heap_locks |-> heap_locks, result |-> Err("CantMoveDownstream")]
    ELSE IF kind # "Proof" \/ callee = "ResourceManagerFunction"
    THEN [proofs |-> proofs, heap_locks |-> heap_locks, result |-> Done(0)]
    ELSE [proofs |-> IF callee # "AuthZoneMethod"
                     THEN [proofs EXCEPT ![proof].restricted = TRUE]
                     ELSE proofs,
          heap_locks |-> heap_locks, result |-> Done(0)]

\* NodeMoveModule::prepare_move_downstream for one node of the message
prepare_move_downstream(proofs, heap_locks, kind, proof, callee) ==
    IF kind \in {"KeyValueStore", "GlobalObject"}
    THEN [proofs |-> proofs, heap_locks |-> heap_locks, result |-> Err("CantMoveDownstream")]
    ELSE IF kind # "Proof" \/ callee = "ResourceManagerFunction"
    THEN [proofs |-> proofs, heap_locks |-> heap_locks, result |-> Done(0)]
    ELSE LET changed_to_restricted == callee # "AuthZoneMethod"
             handle == ProofInfoHandle(proof)
         IN  IF proofs[proof].restricted
             THEN [proofs |-> proofs, heap_locks |-> heap_locks \cup {handle},
                   result |-> Err("CantMoveDownstream")]
             ELSE [proofs |-> IF changed_to_restricted
                              THEN [proofs EXCEPT ![proof].restricted = TRUE]
                              ELSE proofs,
                   heap_locks |-> heap_locks,
                   result |-> Done(0)]

\* Faulty variant of prepare_move_upstream: a proof that returns is unrestricted again
prepare_move_upstream_Unrestrict(proofs, kind, proof) ==
    IF kind \in {"KeyValueStore", "GlobalObject"}
    THEN [proofs |-> proofs, result |-> Err("CantMoveUpstream")]
    ELSE [proofs |-> IF kind = "Proof" THEN [proofs EXCEPT ![proof].restricted = FALSE]
                     ELSE proofs,
          result |-> Done(0)]

\* NodeMoveModule::prepare_move_upstream for one node of the message
prepare_move_upstream(proofs, kind, proof) ==
    IF kind \in {"KeyValueStore", "GlobalObject"}
    THEN [proofs |-> proofs, result |-> Err("CantMoveUpstream")]
    ELSE [proofs |-> proofs, result |-> Done(0)]

\* u32::MAX (the model checker's integers are narrower than u32: a stand-in)
u32_MAX == 2147483647

\* Faulty variant of generate_uuid: the counter wraps around at u32::MAX
generate_uuid_Wrapping(substate, heap_locks) ==
    [substate |-> [substate EXCEPT !.next_id = IF substate.next_id = u32_MAX THEN 0
                                               ELSE substate.next_id + 1],
     heap_locks |-> heap_locks \cup {RuntimeHandle},
     result |-> Done([hash |-> substate.hash, next_id |-> substate.next_id])]

\* Faulty variant of generate_uuid: the logs written so far enter the hashed data
generate_uuid_WithLogs(substate, heap_locks) ==
    IF substate.next_id = u32_MAX
    THEN [substate |-> substate, heap_locks |-> heap_locks \cup {RuntimeHandle},
          result |-> Err("OutOfUUid")]
    ELSE [substate |-> [substate EXCEPT !.next_id = substate.next_id + 1],
          heap_locks |-> heap_locks \cup {RuntimeHandle},
          result |-> Done([hash |-> substate.hash,
                           next_id |-> substate.next_id + substate.logs])]

\* TransactionRuntimeGenerateUuidInvocation::execute on the runtime substate (hash,
\* next_id, logs); the uuid is the low 16 bytes of the hash of the transaction
\* hash followed by next_id, kept as the hashed data
generate_uuid(substate, heap_locks) ==
    IF substate.next_id = u32_MAX
    THEN [substate |-> substate, heap_locks |-> heap_locks \cup {RuntimeHandle},
          result |-> Err("OutOfUUid")]
    ELSE [substate |-> [substate EXCEPT !.next_id = substate.next_id + 1],
          heap_locks |-> heap_locks \cup {RuntimeHandle},
          result |-> Done([hash |-> substate.hash, next_id |-> substate.next_id])]

(***************************************************************************)
(* The kernel running a transaction on the vault: the root frame invokes   *)
(* one operation at a time; the operation returns, and its frame is popped *)
(* when it succeeded, or the transaction is aborted when it failed.        *)
(***************************************************************************)
VaultResources ==
    {[resource_address |-> RADIX_TOKEN, divisibility |-> 18],
     [resource_address |-> "other", divisibility |-> 17]}

\* The substate database under the transaction: one vault and its resource manager
VaultDb(resource) ==
    [k \in {LiquidFungible, LockedFungible, Divisibility} |->
        CASE k = LiquidFungible -> InitialBalance
          [] k = LockedFungible -> EmptyMap
          [] k = Divisibility -> resource.divisibility]

Amounts == (0 - 1)..MaxAmount

\* The amounts asked of lock_fee: up to more than the vault holds
FeeAmounts == (0 - 1)..(InitialBalance + 1)

InitFrame ==
    /\ \E resource \in VaultResources :
          /\ store = TrackNew(VaultDb(resource))
          /\ frame = [status |-> "running",
                      resource_address |-> resource.resource_address,
                      op |-> "none", amount |-> 0, result |-> Done(0),
                      opened |-> {}, opened_heap |-> {},
                      ops |-> 0, log |-> <<>>,
                      fee_reserve |-> 0,
                      worktop |-> 0,
                      proofs |-> EmptyMap,
                      heap_locks |-> {},
                      next_id |-> 0,
                      moved |-> [kind |-> "none"]]
    /\ diff = EmptyMap
    /\ fault = "none"
    /\ track = TrackNew(EmptyMap)
    /\ phase = "unused"
    /\ last = [op |-> "unused"]
    /\ hist = HistInit
    /\ mixer = [event |-> "unused"]
    /\ system = [event |-> "unused"]
    /\ limits = [event |-> "unused"]
    /\ moves = [event |-> "unused"]
    /\ runtime = [event |-> "unused"]
    /\ auth = [event |-> "unused"]
    /\ objects = [event |-> "unused"]
    /\ fees = [event |-> "unused"]
    /\ ownership = [event |-> "unused"]
    /\ reserve = [event |-> "unused"]
    /\ sync = [event |-> "unused"]
    /\ info = [event |-> "unused"]

CanInvoke == fault = "none" /\ frame.status = "running" /\ frame.ops < MaxOps

\* The kernel side after an operation returned: what it was, what it answered, and
\* the handles it opened that are still in the lock tables
Returned(f, op, amount, result, t, heap_locks) ==
    [f EXCEPT !.status = "returned", !.op = op, !.amount = amount, !.result = result,
              !.opened = DOMAIN t.locks \ DOMAIN store.locks,
              !.opened_heap = heap_locks \ f.heap_locks,
              !.heap_locks = heap_locks,
              !.ops = @ + 1,
              !.log = Append(@, [op |-> op, amount |-> amount, ok |-> result.ok]),
              !.moved = [kind |-> "none"]]

PanicOf(result) == IF "panic" \in DOMAIN result THEN result.panic ELSE "none"

InvokeTake ==
    /\ CanInvoke
    /\ \E amount \in Amounts, emit_ok \in BOOLEAN :
          LET r == take(store, amount, emit_ok)
              f == Returned(frame, "take", amount, r.result, r.track, frame.heap_locks)
          IN  /\ store' = r.track
              /\ frame' = [f EXCEPT !.worktop = IF r.result.ok THEN @ + amount ELSE @]
    /\ UNCHANGED <<track, phase, fault, last, diff, hist, mixer, system, limits, moves, runtime, auth, objects, fees, ownership, reserve, sync, info>>

InvokePut ==
    /\ CanInvoke
    /\ \E amount \in 0..frame.worktop, emit_ok \in BOOLEAN :
          LET r == put(store, amount, emit_ok)
              f == Returned(frame, "put", amount, r.result, r.track, frame.heap_locks)
          IN  /\ store' = r.track
              /\ frame' = [f EXCEPT !.worktop = @ - amount]
    /\ UNCHANGED <<track, phase, fault, last, diff, hist, mixer, system, limits, moves, runtime, auth, objects, fees, ownership, reserve, sync, info>>

InvokeLockFee ==
    /\ CanInvoke
    /\ \E amount \in FeeAmounts, emit_ok \in BOOLEAN :
        \E answer \in FeeReserveAnswers(amount) :
          LET r == lock_fee(store, frame.resource_address, amount, answer, emit_ok)
              f == Returned(frame, "lock_fee", amount, r.result, r.track, frame.heap_locks)
          IN  /\ store' = r.track
              /\ frame' = [f EXCEPT !.fee_reserve = @ + r.credited]
    /\ UNCHANGED <<track, phase, fault, last, diff, hist, mixer, system, limits, moves, runtime, auth, objects, fees, ownership, reserve, sync, info>>

\* Proofs are of positive amounts
InvokeLockAmount ==
    /\ CanInvoke
    /\ \E amount \in 1..MaxAmount, emit_ok \in BOOLEAN :
          LET r == FungibleVault_lock_amount(store, amount, emit_ok)
          IN  /\ store' = r.track
              /\ frame' = Returned(frame, "lock_amount", amount, r.result, r.track,
                                   frame.heap_locks)
    /\ UNCHANGED <<track, phase, fault, last, diff, hist, mixer, system, limits, moves, runtime, auth, objects, fees, ownership, reserve, sync, info>>

InvokeUnlockAmount ==
    /\ CanInvoke
    /\ \E amount \in 1..MaxAmount, emit_ok \in BOOLEAN :
          LET r == FungibleVault_unlock_amount(store, amount, emit_ok)
          IN  /\ store' = r.track
              /\ frame' = Returned(frame, "unlock_amount", amount, r.result, r.track,
                                   frame.heap_locks)
              /\ fault' = PanicOf(r.result)
    /\ UNCHANGED <<track, phase, last, diff, hist, mixer, system, limits, moves, runtime, auth, objects, fees, ownership, reserve, sync, info>>

\* create_proof_by_amount: the divisibility check, lock_amount, then new_object,
\* which puts the proof, unrestricted, in the heap
InvokeCreateProof ==
    /\ CanInvoke
    /\ Cardinality(DOMAIN frame.proofs) < MaxProofs
    /\ \E amount \in {0 - 1} \cup 1..MaxAmount, emit_ok \in BOOLEAN :
          LET r == create_proof_by_amount(store, amount, emit_ok)
              f == Returned(frame, "create_proof_by_amount", amount, r.result, r.track,
                            frame.heap_locks)
              proof_id == Cardinality(DOMAIN frame.proofs) + 1
          IN  /\ store' = r.track
              /\ frame' = [f EXCEPT !.proofs =
                              IF r.result.ok
                              THEN MapInsert(@, proof_id, [restricted |-> FALSE, amount |-> amount])
                              ELSE @]
    /\ UNCHANGED <<track, phase, fault, last, diff, hist, mixer, system, limits, moves, runtime, auth, objects, fees, ownership, reserve, sync, info>>

\* before_push_frame of the NodeMove module for an invocation that moves one node
MoveDownstream ==
    /\ CanInvoke
    /\ \E kind \in MovedNodeKinds, callee \in MoveCallees :
        \E proof \in IF kind = "Proof" THEN DOMAIN frame.proofs ELSE {0} :
          LET r == prepare_move_downstream(frame.proofs, frame.heap_locks, kind, proof, callee)
              f == Returned(frame, "prepare_move_downstream", proof, r.result, store,
                            r.heap_locks)
          IN  frame' = [f EXCEPT
                  !.proofs = r.proofs,
                  !.moved = [kind |-> kind, callee |-> callee, proof |-> proof,
                             restricted |-> kind = "Proof" /\ frame.proofs[proof].restricted]]
    /\ UNCHANGED <<track, phase, fault, last, diff, hist, store, mixer, system, limits, moves, runtime, auth, objects, fees, ownership, reserve, sync, info>>

\* on_execution_finish of the NodeMove module for a frame that returns one node
MoveUpstream ==
    /\ CanInvoke
    /\ \E kind \in MovedNodeKinds :
        \E proof \in IF kind = "Proof" THEN DOMAIN frame.proofs ELSE {0} :
          LET r == prepare_move_upstream(frame.proofs, kind, proof)
              f == Returned(frame, "prepare_move_upstream", proof, r.result, store,
                            frame.heap_locks)
          IN  frame' = [f EXCEPT
                  !.proofs = r.proofs,
                  !.moved = [kind |-> kind, callee |-> "caller", proof |-> proof,
                             restricted |-> kind = "Proof" /\ frame.proofs[proof].restricted]]
    /\ UNCHANGED <<track, phase, fault, last, diff, hist, store, mixer, system, limits, moves, runtime, auth, objects, fees, ownership, reserve, sync, info>>

GenerateUuid ==
    /\ CanInvoke
    /\ LET r == generate_uuid([hash |-> "tx_hash", next_id |-> frame.next_id, logs |-> 0],
                               frame.heap_locks)
           f == Returned(frame, "generate_uuid", 0, r.result, store, r.heap_locks)
       IN  frame' = [f EXCEPT !.next_id = r.substate.next_id]
    /\ UNCHANGED <<track, phase, fault, last, diff, hist, store, mixer, system, limits, moves, runtime, auth, objects, fees, ownership, reserve, sync, info>>

\* The locks of a frame still open when it pops are released by the kernel
RECURSIVE drop_all_locks(_)
drop_all_locks(t) ==
    IF DOMAIN t.locks = {}
    THEN t
    ELSE LET handle == CHOOSE h \in DOMAIN t.locks : \A g \in DOMAIN t.locks : h <= g
         IN  drop_all_locks(release_lock(t, handle, TRUE).track)

\* The operation succeeded: its frame pops and the root frame goes on
PopFrame ==
    /\ fault = "none" /\ frame.status = "returned" /\ frame.result.ok
    /\ store' = drop_all_locks(store)
    /\ frame' = [frame EXCEPT !.status = "running", !.heap_locks = {}]
    /\ UNCHANGED <<track, phase, fault, last, diff, hist, mixer, system, limits, moves, runtime, auth, objects, fees, ownership, reserve, sync, info>>

\* The operation failed: the transaction is aborted, its changes are reverted and
\* what is left is finalized into the receipt
Abort ==
    /\ fault = "none" /\ frame.status = "returned" /\ ~frame.result.ok
    /\ store' = revert_non_force_write_changes(store)
    /\ diff' = finalize(revert_non_force_write_changes(store))
    /\ frame' = [frame EXCEPT !.status = "aborted"]
    /\ UNCHANGED <<track, phase, fault, last, hist, mixer, system, limits, moves, runtime, auth, objects, fees, ownership, reserve, sync, info>>

\* The instruction list is done: the transaction commits
Commit ==
    /\ fault = "none" /\ frame.status = "running"
    /\ diff' = finalize(store)
    /\ frame' = [frame EXCEPT !.status = "committed"]
    /\ UNCHANGED <<track, phase, fault, last, hist, store, mixer, system, limits, moves, runtime, auth, objects, fees, ownership, reserve, sync, info>>

FrameNext ==
    \/ InvokeTake
    \/ InvokePut
    \/ InvokeLockFee
    \/ InvokeLockAmount
    \/ InvokeUnlockAmount
    \/ InvokeCreateProof
    \/ MoveDownstream
    \/ MoveUpstream
    \/ GenerateUuid
    \/ PopFrame
    \/ Abort
    \/ Commit

\* The operations C9 names
LockingOperations ==
    {"take", "put", "lock_fee", "lock_amount", "unlock_amount", "prepare_move_downstream",
     "generate_uuid"}

\* C9 (as stated): every substate lock opened by an operation is closed before the
\* frame running it pops: when the NodeMove downstream proof check, the vault's
\* take, put, lock_amount, unlock_amount or lock_fee, or generate_uuid has
\* returned, with success or with an error, no handle it opened is still in a
\* lock table.
C9_LocksClosedAtReturn ==
    (frame.status = "returned" /\ frame.op \in LockingOperations) =>
        frame.opened = {} /\ frame.opened_heap = {}

\* The liquid balance the database holds for the vault
StoredBalance == InitialBalance

\* The successful lock_fee of the transaction, if any: its place in the log
LockFeeDone == {i \in 1..Len(frame.log) : frame.log[i].op = "lock_fee" /\ frame.log[i].ok}

\* C3: if lock_fee succeeded on the vault and the transaction later fails, the
\* diff produced after the revert holds exactly one record, the update of the
\* vault's liquid balance to the stored balance less the fee the fee reserve
\* kept; no other write of the transaction is in it.
C3_LockFeeThenFail ==
    (frame.status = "aborted" /\ LockFeeDone # {}) =>
        diff = [k \in {LiquidFungible} |->
                    [kind |-> "Update", value |-> StoredBalance - frame.fee_reserve]]

\* C3 witness: lock_fee locked a positive fee, a later take changed the balance,
\* then an operation failed and the transaction was aborted
C3_Witness ==
    /\ frame.status = "aborted" /\ LockFeeDone # {}
    /\ frame.fee_reserve > 0
    /\ \E i \in 1..Len(frame.log) :
          /\ frame.log[i].op = "take" /\ frame.log[i].ok /\ frame.log[i].amount > 0
          /\ \E j \in LockFeeDone : j < i
    /\ diff[LiquidFungible].value = StoredBalance - frame.fee_reserve

\* The last operation was prepare_move_downstream for a proof
ProofMove == frame.op = "prepare_move_downstream" /\ frame.moved.kind = "Proof"

\* C19 as stated: when a proof is moved downstream, its restricted flag stays
\* false if the callee is a method on an auth-zone object of the resource
\* package and is set to true for every other callee.
C19_Original ==
    (ProofMove /\ frame.result.ok) =>
        (frame.proofs[frame.moved.proof].restricted <=> frame.moved.callee # "AuthZoneMethod")

\* C19 amended: when a proof is moved downstream, its restricted flag stays
\* false if the callee is a method on an auth-zone object of the resource
\* package, is left as it was if the callee is a function of the resource
\* package, and is set to true for every other callee.
C19_RestrictedOnMove ==
    (ProofMove /\ frame.result.ok) =>
        frame.proofs[frame.moved.proof].restricted =
            CASE frame.moved.callee = "AuthZoneMethod" -> FALSE
              [] frame.moved.callee = "ResourceManagerFunction" -> frame.moved.restricted
              [] OTHER -> TRUE

\* C19 witness: an unrestricted proof moved to a method of another object is
\* restricted now
C19_Witness ==
    /\ ProofMove
    /\ frame.result.ok
    /\ frame.moved.callee = "OtherMethod"
    /\ ~frame.moved.restricted
    /\ frame.proofs[frame.moved.proof].restricted

\* C20 as stated: moving a proof whose restricted flag is already set downstream
\* is rejected with NodeMoveError::CantMoveDownstream, whatever the callee is.
C20_Original ==
    (ProofMove /\ frame.moved.restricted) => frame.result = Err("CantMoveDownstream")

\* C20 amended: moving a proof whose restricted flag is already set downstream
\* is rejected with NodeMoveError::CantMoveDownstream, whatever the callee is,
\* except a function of the resource package, to which it moves with the flag
\* still set.
C20_RestrictedRejected ==
    (ProofMove /\ frame.moved.restricted) =>
        /\ frame.proofs[frame.moved.proof].restricted
        /\ IF frame.moved.callee = "ResourceManagerFunction"
           THEN frame.result.ok
           ELSE frame.result = Err("CantMoveDownstream")

\* C20 witness: a restricted proof on its way to an auth zone is rejected
C20_Witness ==
    /\ ProofMove
    /\ frame.moved.restricted
    /\ frame.moved.callee = "AuthZoneMethod"
    /\ frame.result = Err("CantMoveDownstream")

\* C21: once a proof's restricted flag is set it is never cleared: in every step
\* a proof that is restricted before the step is restricted after it.
C21_RestrictedForever ==
    [][\A p \in DOMAIN frame.proofs :
          frame.proofs[p].restricted =>
              (p \in DOMAIN frame'.proofs /\ frame'.proofs[p].restricted)]_vars

\* C21 witness: a proof restricted by a move downstream has moved upstream and
\* is still restricted
C21_Witness ==
    /\ frame.op = "prepare_move_upstream"
    /\ frame.moved.kind = "Proof"
    /\ frame.moved.restricted
    /\ frame.result.ok
    /\ frame.proofs[frame.moved.proof].restricted

\* The calls C34 is about
LockCalls == {"lock_amount", "unlock_amount"}

\* The place in the log of the first lock_amount or unlock_amount call, zero if none
FirstLockCall ==
    IF \E i \in 1..Len(frame.log) : frame.log[i].op \in LockCalls
    THEN CHOOSE i \in 1..Len(frame.log) :
            /\ frame.log[i].op \in LockCalls
            /\ \A j \in 1..(i - 1) : frame.log[j].op \notin LockCalls
    ELSE 0

\* The transaction has made lock_amount and unlock_amount calls, all of them
\* successful, with no other operation since the first of them and no other lock
\* of an amount before it
OnlyLockCallsSinceFirst ==
    /\ frame.status \in {"running", "returned"}
    /\ FirstLockCall > 0
    /\ \A i \in 1..Len(frame.log) :
          /\ frame.log[i].ok
          /\ frame.log[i].op # "create_proof_by_amount"
          /\ i >= FirstLockCall => frame.log[i].op \in LockCalls

\* The liquid balance before the first lock: the stored balance less what the
\* transaction took to the worktop and what the fee reserve kept
LiquidBeforeFirstLock == StoredBalance - frame.worktop - frame.fee_reserve

\* The vault once the frame of the last operation has popped
PoppedStore == drop_all_locks(store)

\* C34: get_amount of a fungible vault (liquid amount plus locked amount) is
\* unchanged by every successful lock_amount and unlock_amount call, and once
\* every locked amount has been unlocked the locked amount is zero and the
\* liquid amount equals its value before the first lock.
C34_LockKeepsAmount ==
    /\ [][(/\ frame.status = "running"
           /\ frame'.status = "returned"
           /\ frame'.op \in LockCalls
           /\ frame'.result.ok)
            => /\ get_amount(store).ok
               /\ get_amount(drop_all_locks(store')) = get_amount(store)]_vars
    /\ []((/\ OnlyLockCallsSinceFirst
           /\ read_field(acquire_lock(PoppedStore, LockedFungible, read_only)) = Done(EmptyMap))
            => /\ locked_amount(PoppedStore) = Done(0)
               /\ liquid_amount(PoppedStore) = Done(LiquidBeforeFirstLock))

\* C34 witness: after a take of 1, 1 was locked and unlocked again; nothing is
\* locked and the liquid balance is again what the take left
C34_Witness ==
    /\ OnlyLockCallsSinceFirst
    /\ frame.status = "returned"
    /\ frame.log = <<[op |-> "take", amount |-> 1, ok |-> TRUE],
                     [op |-> "lock_amount", amount |-> 1, ok |-> TRUE],
                     [op |-> "unlock_amount", amount |-> 1, ok |-> TRUE]>>
    /\ locked_amount(PoppedStore) = Done(0)
    /\ liquid_amount(PoppedStore) = Done(InitialBalance - 1)

\* The errors of lock_fee C35 names
LockFeeRefusals ==
    {Err("LockFeeNotRadixToken"), Err("InvalidAmount"), Err("LockFeeInsufficientBalance")}

\* What lock_fee(amount) does to the liquid balance of the vault t when the fee
\* reserve answers with answer: r is what lock_fee returned
LockFeeEffect(t, r, amount, answer) ==
    /\ r.result.ok =>
          /\ answer.ok
          /\ liquid_amount(drop_all_locks(r.track)) =
                Done(liquid_amount(t).value - (amount - answer.value))
          /\ r.credited = amount - answer.value
    /\ r.result \in LockFeeRefusals =>
          /\ liquid_amount(drop_all_locks(r.track)) = liquid_amount(t)
          /\ r.credited = 0

\* C35: lock_fee(amount) on a vault: on success the stored liquid balance
\* decreases by exactly amount minus the change the fee reserve returned; when it
\* fails with LockFeeNotRadixToken, InvalidAmount or LockFeeInsufficientBalance
\* the stored balance is unchanged and nothing has been credited to the fee
\* reserve.  Stated of every lock_fee call the transaction can make next, and of
\* the one it made last.
C35_LockFeeEffect ==
    /\ (fault = "none" /\ frame.status = "running") =>
          /\ liquid_amount(store).ok
          /\ \A amount \in FeeAmounts, emit_ok \in BOOLEAN :
                \A answer \in FeeReserveAnswers(amount) :
                   LockFeeEffect(store,
                                 lock_fee(store, frame.resource_address, amount, answer, emit_ok),
                                 amount, answer)
    /\ (frame.status = "returned" /\ frame.op = "lock_fee" /\ Len(frame.log) = 1) =>
          /\ frame.result.ok =>
                liquid_amount(PoppedStore) = Done(StoredBalance - frame.fee_reserve)
          /\ frame.result \in LockFeeRefusals =>
                liquid_amount(PoppedStore) = Done(StoredBalance) /\ frame.fee_reserve = 0

\* C35 witness: the first operation was a lock_fee of 2 that succeeded, the fee
\* reserve returned a change of 1, and the liquid balance is 1 less than stored
C35_Witness ==
    /\ frame.status = "returned"
    /\ frame.log = <<[op |-> "lock_fee", amount |-> 2, ok |-> TRUE]>>
    /\ frame.fee_reserve = 1
    /\ liquid_amount(PoppedStore) = Done(StoredBalance - 1)

SpecFrame == InitFrame /\ [][FrameNext]_vars

(***************************************************************************)
(* Call depth and costing: before_invoke of the limits and costing modules  *)
(* under the kernel's frame stack, and the abortion of costing errors.      *)
(***************************************************************************)

MaxCallDepth == 2      \* largest configured max_call_depth
MaxPaidInvokes == 2    \* the fee reserve starts with the units of at most this many invokes
MaxPayload == 1        \* max_invoke_payload_size; invocations are up to one byte longer

fixed_low == 500

fixed_medium == 2500

fixed_high == 5000

\* a + b in u32 without overflow checks
wrapping_add(a, b) ==
    IF a > u32_MAX - b THEN a - (u32_MAX - b) - 1 ELSE a + b

\* k * x in u32 without overflow checks
RECURSIVE wrapping_mul(_, _)
wrapping_mul(k, x) ==
    IF k = 0 THEN 0
    ELSE IF k % 2 = 1 THEN wrapping_add(wrapping_mul(k - 1, x), x)
    ELSE wrapping_add(wrapping_mul(k \div 2, x), wrapping_mul(k \div 2, x))

\* base + factor * size does not fit u32
CostOverflows(base, factor, size) ==
    factor > 0 /\ (size > u32_MAX \div factor \/ base > u32_MAX - factor * size)

\* base + factor * size with the operators + and * of u32: with overflow checks
\* an overflow panics, without them it wraps around
LinearCost(base, factor, size, overflow_checks) ==
    IF overflow_checks /\ CostOverflows(base, factor, size)
    THEN Panic("arithmetic overflow")
    ELSE Done(wrapping_add(base, wrapping_mul(factor, size)))

\* FeeTable::kernel_api_cost in a build with or without overflow checks
kernel_api_cost(entry, overflow_checks) ==
    CASE entry.kind = "Invoke" -> LinearCost(fixed_low, 10, entry.size, overflow_checks)
      [] entry.kind \in {"CreateNode", "DropNode"} ->
            LinearCost(fixed_medium, 100, entry.size, overflow_checks)
      [] entry.kind \in {"LockSubstate", "DropLock"} -> Done(fixed_high)
      [] entry.kind = "ReadSubstate" ->
            LinearCost(fixed_medium, 100, entry.size, overflow_checks)
      [] entry.kind = "WriteSubstate" ->
            LinearCost(fixed_medium, 1000, entry.size, overflow_checks)

\* FeeTable::kernel_api_cost(CostingEntry::Invoke { input_size }) for the input
\* sizes of an invocation, which do not overflow
kernel_api_cost_Invoke(input_size) ==
    kernel_api_cost([kind |-> "Invoke", size |-> input_size], FALSE).value

\* FeeReserveError: running out of execution units, or arithmetic overflow
InsufficientBalance == [variant |-> "InsufficientBalance"]

Overflow == [variant |-> "Overflow"]

FeeReserveErrors == {InsufficientBalance, Overflow}

\* FeeReserveError::abortion: the error of an exhausted reserve carries the abort reason
FeeReserveError_abortion(err) ==
    IF err = InsufficientBalance THEN Some("FeeReserveExhausted") ELSE None

\* The fee reserve charges cost_units * multiplier against the remaining units
consume_multiplied_execution(remaining, cost_units, multiplier) ==
    IF cost_units > u32_MAX \div multiplier
    THEN [remaining |-> remaining, result |-> Err(Overflow)]
    ELSE IF remaining < cost_units * multiplier
    THEN [remaining |-> remaining, result |-> Err(InsufficientBalance)]
    ELSE [remaining |-> remaining - cost_units * multiplier, result |-> OkUnit]

CostingError_FeeReserveError(e) == [variant |-> "FeeReserveError", err |-> e]

CostingError_MaxCallDepthLimitReached == [variant |-> "MaxCallDepthLimitReached"]

WrongSubstateStoreDbAccessInfo == [variant |-> "WrongSubstateStoreDbAccessInfo"]

CostingErrors ==
    {CostingError_FeeReserveError(e) : e \in FeeReserveErrors}
        \cup {CostingError_MaxCallDepthLimitReached, WrongSubstateStoreDbAccessInfo}

\* Faulty variant of abortion: every costing error reports an abort reason
abortion_Always(self) ==
    IF self.variant = "FeeReserveError"
    THEN FeeReserveError_abortion(self.err)
    ELSE Some(self.variant)

\* CanBeAbortion for CostingError
abortion(self) ==
    IF self.variant = "FeeReserveError" THEN FeeReserveError_abortion(self.err) ELSE None

\* SystemModuleError::CostingError and SystemModuleError::TransactionLimitsError
CostingError(e) == [module |-> "CostingError", error |-> e]

TransactionLimitsError(e) == [module |-> "TransactionLimitsError", error |-> e]

TransactionLimitsError_MaxCallDepthLimitReached == [variant |-> "MaxCallDepthLimitReached"]

MaxInvokePayloadSizeExceeded(size) ==
    [variant |-> "MaxInvokePayloadSizeExceeded", size |-> size]

\* The abort reason of a RuntimeError: only costing errors can carry one
RuntimeError_abortion(e) ==
    IF e.module = "CostingError" THEN abortion(e.error) ELSE None

\* CostingModule::apply_execution_cost
apply_execution_cost(remaining, cost_units, multiplier) ==
    LET r == consume_multiplied_execution(remaining, cost_units, multiplier)
    IN  [remaining |-> r.remaining,
         result |-> IF r.result.ok THEN OkUnit
                    ELSE Err(CostingError(CostingError_FeeReserveError(r.result.error)))]

\* Faulty variant of CostingModule_before_invoke: the invocation is never charged
CostingModule_before_invoke_NoCharge(remaining, max_call_depth, current_depth, input_size) ==
    IF current_depth = max_call_depth
    THEN [remaining |-> remaining,
          result |-> Err(CostingError(CostingError_MaxCallDepthLimitReached))]
    ELSE [remaining |-> remaining, result |-> OkUnit]

\* CostingModule::before_invoke
CostingModule_before_invoke(remaining, max_call_depth, current_depth, input_size) ==
    IF current_depth = max_call_depth
    THEN [remaining |-> remaining,
          result |-> Err(CostingError(CostingError_MaxCallDepthLimitReached))]
    ELSE IF current_depth > 0
    THEN apply_execution_cost(remaining, kernel_api_cost_Invoke(input_size), 1)
    ELSE [remaining |-> remaining, result |-> OkUnit]

\* Faulty variant of LimitsModule_before_invoke: no check of the call depth
LimitsModule_before_invoke_NoDepthCheck(max_call_depth, max_invoke_payload_size, current_depth, input_size) ==
    IF input_size > max_invoke_payload_size
    THEN Err(TransactionLimitsError(MaxInvokePayloadSizeExceeded(input_size)))
    ELSE OkUnit

\* LimitsModule::before_invoke; max_call_depth is the field of the costing module
LimitsModule_before_invoke(max_call_depth, max_invoke_payload_size, current_depth, input_size) ==
    IF current_depth = max_call_depth
    THEN Err(TransactionLimitsError(TransactionLimitsError_MaxCallDepthLimitReached))
    ELSE IF input_size > max_invoke_payload_size
    THEN Err(TransactionLimitsError(MaxInvokePayloadSizeExceeded(input_size)))
    ELSE OkUnit

\* SystemModuleMixer::before_invoke once the limits module has answered
before_invoke_costing(sys, limits_result, input_size) ==
    IF ~limits_result.ok
    THEN [remaining |-> sys.remaining, result |-> limits_result]
    ELSE IF contains(sys.enabled_modules, COSTING)
    THEN CostingModule_before_invoke(sys.remaining, sys.max_call_depth, sys.depth,
                                     input_size)
    ELSE [remaining |-> sys.remaining, result |-> OkUnit]

\* SystemModuleMixer::before_invoke: of the modules that can fail here the macro
\* runs Limits first, then Costing
before_invoke(sys, input_size) ==
    before_invoke_costing(
        sys,
        IF contains(sys.enabled_modules, LIMITS)
        THEN LimitsModule_before_invoke(sys.max_call_depth, MaxPayload, sys.depth,
                                        input_size)
        ELSE OkUnit,
        input_size)

\* The five profiles, and a notarized and a genesis profile without the limits module
InitInvoke ==
    /\ system \in [enabled_modules : {for_genesis_transaction, for_system_transaction,
                                      for_notarized_transaction, for_test_transaction,
                                      for_preview, for_notarized_transaction - LIMITS,
                                      for_genesis_transaction - LIMITS},
                   max_call_depth : 0..MaxCallDepth,
                   remaining : {n * fixed_low : n \in 0..MaxPaidInvokes},
                   depth : {0},
                   last : {[event |-> "new"]}]
    /\ track = TrackNew(EmptyMap)
    /\ phase = "unused"
    /\ fault = "none"
    /\ last = [op |-> "unused"]
    /\ diff = EmptyMap
    /\ hist = HistInit
    /\ store = TrackNew(EmptyMap)
    /\ frame = [status |-> "unused"]
    /\ mixer = [event |-> "unused"]
    /\ limits = [event |-> "unused"]
    /\ moves = [event |-> "unused"]
    /\ runtime = [event |-> "unused"]
    /\ auth = [event |-> "unused"]
    /\ objects = [event |-> "unused"]
    /\ fees = [event |-> "unused"]
    /\ ownership = [event |-> "unused"]
    /\ reserve = [event |-> "unused"]
    /\ sync = [event |-> "unused"]
    /\ info = [event |-> "unused"]

\* The deepest frame stack the model follows where no module checks the depth
DepthCap == MaxCallDepth + 2

\* The kernel invokes: before_invoke at the current depth, then the frame is pushed
Invoke ==
    /\ system.depth < DepthCap
    /\ \E input_size \in 0..(MaxPayload + 1) :
          LET r == before_invoke(system, input_size)
          IN  system' = [system EXCEPT
                  !.remaining = r.remaining,
                  !.depth = IF r.result.ok THEN @ + 1 ELSE @,
                  !.last = [event |-> "before_invoke", depth |-> system.depth,
                            remaining |-> system.remaining, input_size |-> input_size,
                            result |-> r.result,
                            abortion |-> IF r.result.ok THEN None
                                         ELSE RuntimeError_abortion(r.result.error)]]
    /\ UNCHANGED <<track, phase, fault, last, diff, hist, store, frame, mixer, limits, moves, runtime, auth, objects, fees, ownership, reserve, sync, info>>

\* The invoked frame returns and is popped
Return ==
    /\ system.depth > 0
    /\ system' = [system EXCEPT !.depth = @ - 1, !.last = [event |-> "after_invoke"]]
    /\ UNCHANGED <<track, phase, fault, last, diff, hist, store, frame, mixer, limits, moves, runtime, auth, objects, fees, ownership, reserve, sync, info>>

\* The transaction executor asks a costing error for its abort reason
Abortion ==
    /\ \E err \in CostingErrors :
          system' = [system EXCEPT !.last = [event |-> "abortion", error |-> err,
                                             abortion |-> abortion(err)]]
    /\ UNCHANGED <<track, phase, fault, last, diff, hist, store, frame, mixer, limits, moves, runtime, auth, objects, fees, ownership, reserve, sync, info>>

InvokeNext ==
    \/ Invoke
    \/ Return
    \/ Abortion

\* The last before_invoke was stopped by a depth check
DepthRejected ==
    /\ system.last.event = "before_invoke"
    /\ ~system.last.result.ok
    /\ system.last.result.error.error.variant = "MaxCallDepthLimitReached"

C15_CostingErrorAtMaxDepth ==
    (/\ system.last.event = "before_invoke"
     /\ system.last.depth = system.max_call_depth
     /\ contains(system.enabled_modules, LIMITS)
     /\ contains(system.enabled_modules, COSTING)) =>
        system.last.result = Err(CostingError(CostingError_MaxCallDepthLimitReached))

\* C16: a CostingError reports an abort reason only when it is a FeeReserveError
\* raised by reserve exhaustion; MaxCallDepthLimitReached and
\* WrongSubstateStoreDbAccessInfo never report one. A costing error of
\* before_invoke that reports one was raised with fewer units remaining than
\* the invoke costs.
C16_AbortionOnlyOnExhaustion ==
    /\ system.last.event = "abortion" =>
          /\ system.last.abortion # None =>
                system.last.error = CostingError_FeeReserveError(InsufficientBalance)
          /\ system.last.error \in {CostingError_MaxCallDepthLimitReached,
                                    WrongSubstateStoreDbAccessInfo} =>
                system.last.abortion = None
    /\ system.last.event = "before_invoke" =>
          /\ system.last.abortion # None =>
                /\ system.last.result =
                      Err(CostingError(CostingError_FeeReserveError(InsufficientBalance)))
                /\ system.last.remaining < kernel_api_cost_Invoke(system.last.input_size)
          /\ DepthRejected => system.last.abortion = None

\* C16 witness: a before_invoke below the top frame that the exhausted fee
\* reserve stopped, reporting an abort reason
C16_Witness ==
    /\ system.last.event = "before_invoke"
    /\ system.last.depth > 0
    /\ system.last.result = Err(CostingError(CostingError_FeeReserveError(InsufficientBalance)))
    /\ system.last.abortion = Some("FeeReserveExhausted")

\* The last event is a before_invoke that reached the costing module
CostingHookRan ==
    /\ system.last.event = "before_invoke"
    /\ contains(system.enabled_modules, COSTING)
    /\ system.last.result.ok \/ system.last.result.error.module = "CostingError"

\* C32 (as stated): the costing module charges every invocation that passes
\* the depth check the Invoke cost, a fixed part plus a part per input byte (or
\* fails when the fee reserve cannot pay it); an invocation rejected by the
\* depth check leaves the fee reserve unchanged.
C32_Original ==
    CostingHookRan =>
        /\ DepthRejected => system.remaining = system.last.remaining
        /\ system.last.result.ok =>
              system.remaining = system.last.remaining - (fixed_low + 10 * system.last.input_size)
        /\ (~DepthRejected /\ ~system.last.result.ok) =>
              /\ system.remaining = system.last.remaining
              /\ system.last.remaining < fixed_low + 10 * system.last.input_size

\* C32 (amended): the costing module charges every invocation issued at a
\* depth above 0 that passes the depth check the Invoke cost, a fixed part plus
\* a part per input byte (or fails when the fee reserve cannot pay it); the
\* invocation issued at depth 0 is not charged, and an invocation rejected by
\* the depth check leaves the fee reserve unchanged.
C32_ChargedBelowRoot ==
    CostingHookRan =>
        /\ DepthRejected => system.remaining = system.last.remaining
        /\ system.last.result.ok =>
              system.remaining =
                  IF system.last.depth > 0
                  THEN system.last.remaining - (fixed_low + 10 * system.last.input_size)
                  ELSE system.last.remaining
        /\ (~DepthRejected /\ ~system.last.result.ok) =>
              /\ system.last.depth > 0
              /\ system.remaining = system.last.remaining
              /\ system.last.remaining < fixed_low + 10 * system.last.input_size

\* C32 witness: an invocation of one input byte issued at depth 1 has been
\* charged 510 units
C32_Witness ==
    /\ CostingHookRan
    /\ system.last.depth = 1
    /\ system.last.input_size = 1
    /\ system.last.result.ok
    /\ system.remaining = system.last.remaining - 510

SpecInvoke == InitInvoke /\ [][InvokeNext]_vars

(***************************************************************************)
(* The limits module: sizes of substate keys and values, and the running    *)
(* totals of heap and track bytes. A value is modelled by its length, the   *)
(* only thing the module reads of it.                                       *)
(***************************************************************************)

MaxSubstateKeySize == 2     \* config.max_substate_key_size
MaxSubstateValueSize == 2   \* config.max_substate_value_size
MaxTotalBytes == 4          \* config.max_heap_substate_total_bytes and max_track_substate_total_bytes
MaxSubstateKeys == 2        \* canonical substate keys; key k is k bytes long
MaxNodeSubstates == 2       \* substates of a created node

\* SubstateKey
Map(len) == [kind |-> "Map", len |-> len]

Sorted(len) == [kind |-> "Sorted", len |-> len]

Field == [kind |-> "Field"]

MaxSubstateKeySizeExceeded(len) == [variant |-> "MaxSubstateKeySizeExceeded", size |-> len]

MaxSubstateSizeExceeded(len) == [variant |-> "MaxSubstateSizeExceeded", size |-> len]

HeapSubstateSizeExceeded(actual, max) ==
    [variant |-> "HeapSubstateSizeExceeded", actual |-> actual, max |-> max]

TrackSubstateSizeExceeded(actual, max) ==
    [variant |-> "TrackSubstateSizeExceeded", actual |-> actual, max |-> max]

\* The length process_substate_key measures
SubstateKeyLen(substate_key) ==
    CASE substate_key.kind = "Map" -> substate_key.len
      [] substate_key.kind = "Sorted" -> substate_key.len + 2
      [] substate_key.kind = "Field" -> 1

process_substate_key(config, substate_key) ==
    IF SubstateKeyLen(substate_key) > config.max_substate_key_size
    THEN Err(TransactionLimitsError(MaxSubstateKeySizeExceeded(SubstateKeyLen(substate_key))))
    ELSE OkUnit

\* Faulty variant of process_substate_value: a value of exactly the maximum is rejected
process_substate_value_Strict(config, value) ==
    IF value >= config.max_substate_value_size
    THEN Err(TransactionLimitsError(MaxSubstateSizeExceeded(value)))
    ELSE OkUnit

process_substate_value(config, value) ==
    IF value > config.max_substate_value_size
    THEN Err(TransactionLimitsError(MaxSubstateSizeExceeded(value)))
    ELSE OkUnit

\* on_create_node, CreateNodeEvent::Start: key, then value, of each substate from
\* the i-th on, leaving at the first error
RECURSIVE on_create_node_Start(_, _, _)
on_create_node_Start(config, node_substates, i) ==
    IF i > Len(node_substates)
    THEN OkUnit
    ELSE IF ~process_substate_key(config, node_substates[i].key).ok
    THEN process_substate_key(config, node_substates[i].key)
    ELSE IF ~process_substate_value(config, node_substates[i].value).ok
    THEN process_substate_value(config, node_substates[i].value)
    ELSE on_create_node_Start(config, node_substates, i + 1)

\* on_write_substate, WriteSubstateEvent::Start
on_write_substate_Start(config, value) == process_substate_value(config, value)

\* on_set_substate, SetSubstateEvent::Start
on_set_substate_Start(config, substate_key, substate_value) ==
    IF ~process_substate_key(config, substate_key).ok
    THEN process_substate_key(config, substate_key)
    ELSE process_substate_value(config, substate_value)

unwrap_or_default(size) == IF size = None THEN 0 ELSE size.value

\* Faulty variant of UpdateTotal: the key bytes of a first insertion are not counted
UpdateTotal_NoKeyBytes(total, key_len, old_size, new_size) ==
    LET b == IF new_size = None /\ old_size # None THEN total - key_len ELSE total
        c == b + unwrap_or_default(new_size)
        d == c - unwrap_or_default(old_size)
    IN  [total |-> d, underflow |-> b < 0 \/ d < 0]

\* The four statements process_io_access runs on a total for a substate update;
\* underflow: a subtraction took more than the usize total held
UpdateTotal(total, key_len, old_size, new_size) ==
    LET a == IF old_size = None THEN total + key_len ELSE total
        b == IF new_size = None THEN a - key_len ELSE a
        c == b + unwrap_or_default(new_size)
        d == c - unwrap_or_default(old_size)
    IN  [total |-> d, underflow |-> b < 0 \/ d < 0]

\* The checks at the end of process_io_access
CheckTotals(config, heap_total, track_total) ==
    IF heap_total > config.max_heap_substate_total_bytes
    THEN Err(TransactionLimitsError(
                 HeapSubstateSizeExceeded(heap_total, config.max_heap_substate_total_bytes)))
    ELSE IF track_total > config.max_track_substate_total_bytes
    THEN Err(TransactionLimitsError(
                 TrackSubstateSizeExceeded(track_total, config.max_track_substate_total_bytes)))
    ELSE OkUnit

\* process_io_access once the totals are updated
process_io_access_check(l, heap_total, track_total) ==
    [l EXCEPT !.heap_substate_total_bytes = heap_total.total,
              !.track_substate_total_bytes = track_total.total,
              !.underflow = @ \/ heap_total.underflow \/ track_total.underflow,
              !.result = CheckTotals(l.config, heap_total.total, track_total.total)]

\* LimitsModule::process_io_access
process_io_access(l, io_access) ==
    CASE io_access.kind = "HeapSubstateUpdated" ->
            process_io_access_check(
                l,
                UpdateTotal(l.heap_substate_total_bytes, io_access.key_len,
                            io_access.old_size, io_access.new_size),
                [total |-> l.track_substate_total_bytes, underflow |-> FALSE])
      [] io_access.kind = "TrackSubstateUpdated" ->
            process_io_access_check(
                l,
                [total |-> l.heap_substate_total_bytes, underflow |-> FALSE],
                UpdateTotal(l.track_substate_total_bytes, io_access.key_len,
                            io_access.old_size, io_access.new_size))
      [] OTHER ->
            process_io_access_check(
                l,
                [total |-> l.heap_substate_total_bytes, underflow |-> FALSE],
                [total |-> l.track_substate_total_bytes, underflow |-> FALSE])

CanonicalKeys == 1..MaxSubstateKeys

\* canonical_substate_key.len()
KeyLen(key) == key

SubstateSizes == {None} \cup {Some(n) : n \in 0..MaxSubstateValueSize}

\* The keys and value lengths the events carry: around the limits
SubstateKeys ==
    {Field, Map(MaxSubstateKeySize), Map(MaxSubstateKeySize + 1),
     Sorted(MaxSubstateKeySize - 2), Sorted(MaxSubstateKeySize - 1)}

SubstateValues == 0..(MaxSubstateValueSize + 1)

NodeSubstates ==
    UNION {[1..n -> [key : SubstateKeys, value : SubstateValues]] : n \in 1..MaxNodeSubstates}

\* LimitsModule::new: both totals zero, no substate on the heap or in the track
InitLimits ==
    /\ limits = [config |-> [max_substate_key_size |-> MaxSubstateKeySize,
                             max_substate_value_size |-> MaxSubstateValueSize,
                             max_heap_substate_total_bytes |-> MaxTotalBytes,
                             max_track_substate_total_bytes |-> MaxTotalBytes],
                 heap_substate_total_bytes |-> 0,
                 track_substate_total_bytes |-> 0,
                 underflow |-> FALSE,
                 result |-> OkUnit,
                 heap |-> [k \in CanonicalKeys |-> None],
                 track |-> [k \in CanonicalKeys |-> None],
                 event |-> "new",
                 substates |-> <<>>]
    /\ track = TrackNew(EmptyMap)
    /\ phase = "unused"
    /\ fault = "none"
    /\ last = [op |-> "unused"]
    /\ diff = EmptyMap
    /\ hist = HistInit
    /\ store = TrackNew(EmptyMap)
    /\ frame = [status |-> "unused"]
    /\ mixer = [event |-> "unused"]
    /\ system = [event |-> "unused"]
    /\ moves = [event |-> "unused"]
    /\ runtime = [event |-> "unused"]
    /\ auth = [event |-> "unused"]
    /\ objects = [event |-> "unused"]
    /\ fees = [event |-> "unused"]
    /\ ownership = [event |-> "unused"]
    /\ reserve = [event |-> "unused"]
    /\ sync = [event |-> "unused"]
    /\ info = [event |-> "unused"]

\* The IOAccess the kernel hands to the limits module, through any of its hooks
\* (on_create_node, on_drop_node, on_move_module, on_open_substate,
\* on_read_substate, on_write_substate, on_set_substate, on_remove_substate,
\* on_scan_keys, on_drain_substates, on_scan_sorted_substates)
IOAccessEvents == {"HeapSubstateUpdated", "TrackSubstateUpdated", "ReadFromDb"}

\* The kernel reports that a substate of the heap was created, resized or removed
HeapSubstateUpdated ==
    /\ \E key \in CanonicalKeys, new_size \in SubstateSizes :
          LET l == process_io_access(limits,
                       [kind |-> "HeapSubstateUpdated", key_len |-> KeyLen(key),
                        old_size |-> limits.heap[key], new_size |-> new_size])
          IN  limits' = [l EXCEPT !.heap[key] = new_size,
                                  !.event = "HeapSubstateUpdated", !.substates = <<>>]
    /\ UNCHANGED <<track, phase, fault, last, diff, hist, store, frame, mixer, system, moves, runtime, auth, objects, fees, ownership, reserve, sync, info>>

\* The kernel reports that a substate of the track was created, resized or removed
TrackSubstateUpdated ==
    /\ \E key \in CanonicalKeys, new_size \in SubstateSizes :
          LET l == process_io_access(limits,
                       [kind |-> "TrackSubstateUpdated", key_len |-> KeyLen(key),
                        old_size |-> limits.track[key], new_size |-> new_size])
          IN  limits' = [l EXCEPT !.track[key] = new_size,
                                  !.event = "TrackSubstateUpdated", !.substates = <<>>]
    /\ UNCHANGED <<track, phase, fault, last, diff, hist, store, frame, mixer, system, moves, runtime, auth, objects, fees, ownership, reserve, sync, info>>

\* The kernel reports a read from the database
ReadFromDb ==
    /\ limits' = [process_io_access(limits, [kind |-> "ReadFromDb"]) EXCEPT
                     !.event = "ReadFromDb", !.substates = <<>>]
    /\ UNCHANGED <<track, phase, fault, last, diff, hist, store, frame, mixer, system, moves, runtime, auth, objects, fees, ownership, reserve, sync, info>>

IOAccessNext ==
    \/ HeapSubstateUpdated
    \/ TrackSubstateUpdated
    \/ ReadFromDb

\* The kernel is about to create a node with these substates
CreateNodeStart ==
    /\ limits.event = "new"
    /\ \E node_substates \in NodeSubstates :
          limits' = [limits EXCEPT
              !.event = "on_create_node_Start",
              !.substates = node_substates,
              !.result = on_create_node_Start(limits.config, node_substates, 1)]
    /\ UNCHANGED <<track, phase, fault, last, diff, hist, store, frame, mixer, system, moves, runtime, auth, objects, fees, ownership, reserve, sync, info>>

\* The kernel is about to write a value to an open substate
WriteSubstateStart ==
    /\ limits.event = "new"
    /\ \E value \in SubstateValues :
          limits' = [limits EXCEPT
              !.event = "on_write_substate_Start",
              !.substates = <<[value |-> value]>>,
              !.result = on_write_substate_Start(limits.config, value)]
    /\ UNCHANGED <<track, phase, fault, last, diff, hist, store, frame, mixer, system, moves, runtime, auth, objects, fees, ownership, reserve, sync, info>>

\* The kernel is about to set a substate of a key-value partition
SetSubstateStart ==
    /\ limits.event = "new"
    /\ \E substate_key \in SubstateKeys, substate_value \in SubstateValues :
          limits' = [limits EXCEPT
              !.event = "on_set_substate_Start",
              !.substates = <<[key |-> substate_key, value |-> substate_value]>>,
              !.result = on_set_substate_Start(limits.config, substate_key, substate_value)]
    /\ UNCHANGED <<track, phase, fault, last, diff, hist, store, frame, mixer, system, moves, runtime, auth, objects, fees, ownership, reserve, sync, info>>

\* The kernel has taken the result of the event; the module waits for the next one
ValueResume ==
    /\ limits.event # "new"
    /\ limits' = [limits EXCEPT !.event = "new", !.substates = <<>>, !.result = OkUnit]
    /\ UNCHANGED <<track, phase, fault, last, diff, hist, store, frame, mixer, system, moves, runtime, auth, objects, fees, ownership, reserve, sync, info>>

ValueNext ==
    \/ CreateNodeStart
    \/ WriteSubstateStart
    \/ SetSubstateStart
    \/ ValueResume

ValueEvents == {"on_create_node_Start", "on_write_substate_Start", "on_set_substate_Start"}

\* The substates of the last event whose value is longer than max_substate_value_size
TooLong == {i \in 1..Len(limits.substates) :
               limits.substates[i].value > limits.config.max_substate_value_size}

\* The last event was rejected for the size of a value
ValueRejected ==
    /\ ~limits.result.ok
    /\ limits.result.error.error.variant = "MaxSubstateSizeExceeded"

\* C17 as stated: on every event that carries a value (create node, write
\* substate, set substate) a value of exactly max_substate_value_size is
\* accepted and any longer value is rejected with MaxSubstateSizeExceeded.
C17_Original ==
    limits.event \in ValueEvents =>
        /\ TooLong = {} => ~ValueRejected
        /\ TooLong # {} => ValueRejected

\* The substates of the last event whose key is longer than max_substate_key_size
\* (write substate carries no key)
KeyTooLong ==
    {i \in 1..Len(limits.substates) :
        /\ limits.event # "on_write_substate_Start"
        /\ LET k == limits.substates[i].key
               len == IF k.kind = "Field" THEN 1
                      ELSE IF k.kind = "Map" THEN k.len ELSE k.len + 2
           IN  len > limits.config.max_substate_key_size}

Min(S) == CHOOSE x \in S : \A y \in S : x <= y

\* C17 amended: on every event that carries a value (create node, write
\* substate, set substate) a value of exactly max_substate_value_size is
\* accepted, and a longer value is rejected with MaxSubstateSizeExceeded unless
\* the event carries a key over max_substate_key_size at or before that value:
\* create node and set substate check the key of a substate before its value
\* and the first key or value over its limit decides the error.
C17_ValueSize ==
    limits.event \in ValueEvents =>
        /\ TooLong = {} => ~ValueRejected
        /\ TooLong \cup KeyTooLong = {} => limits.result.ok
        /\ (TooLong # {} /\ \A i \in KeyTooLong : i > Min(TooLong)) =>
              limits.result = Err(TransactionLimitsError(
                                  MaxSubstateSizeExceeded(limits.substates[Min(TooLong)].value)))
        /\ (KeyTooLong # {} /\ \A i \in TooLong : i >= Min(KeyTooLong)) =>
              /\ ~limits.result.ok
              /\ limits.result.error.error.variant = "MaxSubstateKeySizeExceeded"

\* C17 witness: a node created with two substates under field keys, the first
\* value of exactly max_substate_value_size, the second one byte longer: the
\* second is rejected
C17_Witness ==
    /\ limits.event = "on_create_node_Start"
    /\ Len(limits.substates) = 2
    /\ limits.substates[1] = [key |-> Field, value |-> limits.config.max_substate_value_size]
    /\ limits.substates[2] = [key |-> Field, value |-> limits.config.max_substate_value_size + 1]
    /\ limits.result = Err(TransactionLimitsError(
                           MaxSubstateSizeExceeded(limits.config.max_substate_value_size + 1)))

\* Key length plus value length, summed over the substates present among keys
RECURSIVE TotalBytes(_, _)
TotalBytes(substates, keys) ==
    IF keys = {}
    THEN 0
    ELSE LET k == CHOOSE x \in keys : TRUE
         IN  (IF substates[k] = None THEN 0 ELSE KeyLen(k) + substates[k].value)
                 + TotalBytes(substates, keys \ {k})

\* C18: after any sequence of substate updates whose old sizes are the sizes
\* last recorded, heap_substate_total_bytes and track_substate_total_bytes each
\* equal the sum of key length plus value length over the substates present;
\* no subtraction underflows; and the event is rejected exactly when a
\* resulting total exceeds its configured maximum (a total equal to the
\* maximum is accepted), with HeapSubstateSizeExceeded when the heap total does.
C18_TotalsAreSums ==
    limits.event \in IOAccessEvents =>
        /\ limits.heap_substate_total_bytes = TotalBytes(limits.heap, CanonicalKeys)
        /\ limits.track_substate_total_bytes = TotalBytes(limits.track, CanonicalKeys)
        /\ ~limits.underflow
        /\ limits.result.ok <=>
              /\ limits.heap_substate_total_bytes <= limits.config.max_heap_substate_total_bytes
              /\ limits.track_substate_total_bytes <= limits.config.max_track_substate_total_bytes
        /\ limits.heap_substate_total_bytes > limits.config.max_heap_substate_total_bytes =>
              limits.result = Err(TransactionLimitsError(HeapSubstateSizeExceeded(
                                  limits.heap_substate_total_bytes,
                                  limits.config.max_heap_substate_total_bytes)))

\* C18 witness: the heap holds exactly the maximum in its last key alone, the
\* track is not empty, and the event that brought this about was accepted
C18_Witness ==
    /\ limits.event \in IOAccessEvents
    /\ limits.result.ok
    /\ limits.heap_substate_total_bytes = limits.config.max_heap_substate_total_bytes
    /\ limits.heap[1] = None
    /\ limits.heap[MaxSubstateKeys] # None
    /\ limits.track_substate_total_bytes > 0

SpecLimitsValue == InitLimits /\ [][ValueNext]_vars

SpecLimits == InitLimits /\ [][IOAccessNext]_vars

(***************************************************************************)
(* The NodeMove module over the whole list nodes_to_move of a frame push    *)
(* (before_push_frame) and of a returning frame (on_execution_finish).      *)
(***************************************************************************)

MaxMoved == 2      \* nodes in nodes_to_move

RECURSIVE before_push_frame(_, _, _, _, _)
RECURSIVE before_push_frame_next(_, _, _, _)

\* Faulty variant of before_push_frame_next: the loop goes on after a rejected node
before_push_frame_next_GoOn(r, nodes_to_move, callee, i) ==
    before_push_frame(r.proofs, r.heap_locks, nodes_to_move, callee, i + 1)

\* The loop of before_push_frame from the i-th node on; checked is the number of
\* nodes handed to prepare_move_downstream
before_push_frame_next(r, nodes_to_move, callee, i) ==
    IF ~r.result.ok
    THEN [proofs |-> r.proofs, heap_locks |-> r.heap_locks, result |-> r.result,
          checked |-> i]
    ELSE before_push_frame(r.proofs, r.heap_locks, nodes_to_move, callee, i + 1)

\* NodeMoveModule::before_push_frame
before_push_frame(proofs, heap_locks, nodes_to_move, callee, i) ==
    IF i > Len(nodes_to_move)
    THEN [proofs |-> proofs, heap_locks |-> heap_locks, result |-> Done(0),
          checked |-> Len(nodes_to_move)]
    ELSE before_push_frame_next(
             prepare_move_downstream(proofs, heap_locks, nodes_to_move[i].kind,
                                     nodes_to_move[i].proof, callee),
             nodes_to_move, callee, i)

\* NodeMoveModule::on_execution_finish from the i-th node on
RECURSIVE on_execution_finish(_, _, _)
on_execution_finish(proofs, nodes_to_move, i) ==
    IF i > Len(nodes_to_move)
    THEN [proofs |-> proofs, result |-> Done(0), checked |-> Len(nodes_to_move)]
    ELSE IF ~prepare_move_upstream(proofs, nodes_to_move[i].kind, nodes_to_move[i].proof).result.ok
    THEN [proofs |-> proofs,
          result |-> prepare_move_upstream(proofs, nodes_to_move[i].kind,
                                           nodes_to_move[i].proof).result,
          checked |-> i]
    ELSE on_execution_finish(proofs, nodes_to_move, i + 1)

\* The nodes a frame can own: its proofs, another object, a key-value store, a
\* global object
OwnedNodes ==
    {[kind |-> "Proof", proof |-> p] : p \in 1..MaxProofs}
        \cup {[kind |-> k, proof |-> 0] : k \in MovedNodeKinds \ {"Proof"}}

\* Lists of nodes to move; no proof is listed twice
NodesToMove ==
    {nodes \in UNION {[1..n -> OwnedNodes] : n \in 1..MaxMoved} :
        \A i, j \in DOMAIN nodes :
            (i # j /\ nodes[i].kind = "Proof") => nodes[i] # nodes[j]}

\* A frame that owns proofs, restricted or not, and any of the other nodes
InitMoves ==
    /\ moves \in [proofs : [1..MaxProofs -> [restricted : BOOLEAN]],
                  before : {<<>>},
                  event : {"new"},
                  callee : {"none"},
                  nodes_to_move : {<<>>},
                  result : {Done(0)},
                  checked : {0},
                  transferred : {FALSE}]
    /\ track = TrackNew(EmptyMap)
    /\ phase = "unused"
    /\ fault = "none"
    /\ last = [op |-> "unused"]
    /\ diff = EmptyMap
    /\ hist = HistInit
    /\ store = TrackNew(EmptyMap)
    /\ frame = [status |-> "unused"]
    /\ mixer = [event |-> "unused"]
    /\ system = [event |-> "unused"]
    /\ limits = [event |-> "unused"]
    /\ runtime = [event |-> "unused"]
    /\ auth = [event |-> "unused"]
    /\ objects = [event |-> "unused"]
    /\ fees = [event |-> "unused"]
    /\ ownership = [event |-> "unused"]
    /\ reserve = [event |-> "unused"]
    /\ sync = [event |-> "unused"]
    /\ info = [event |-> "unused"]

\* The kernel is about to push a frame for callee and hand it nodes_to_move; the
\* nodes change owner only when the module lets the push pass
BeforePushFrame ==
    /\ moves.event = "new"
    /\ \E nodes_to_move \in NodesToMove, callee \in MoveCallees :
          LET r == before_push_frame(moves.proofs, {}, nodes_to_move, callee, 1)
          IN  moves' = [proofs |-> r.proofs, before |-> moves.proofs,
                        event |-> "before_push_frame", callee |-> callee,
                        nodes_to_move |-> nodes_to_move, result |-> r.result,
                        checked |-> r.checked, transferred |-> r.result.ok]
    /\ UNCHANGED <<track, phase, fault, last, diff, hist, store, frame, mixer, system, limits, runtime, auth, objects, fees, ownership, reserve, sync, info>>

\* A frame has finished and is about to hand nodes_to_move back to its caller
OnExecutionFinish ==
    /\ moves.event = "new"
    /\ \E nodes_to_move \in NodesToMove :
          LET r == on_execution_finish(moves.proofs, nodes_to_move, 1)
          IN  moves' = [proofs |-> r.proofs, before |-> moves.proofs,
                        event |-> "on_execution_finish", callee |-> "caller",
                        nodes_to_move |-> nodes_to_move, result |-> r.result,
                        checked |-> r.checked, transferred |-> r.result.ok]
    /\ UNCHANGED <<track, phase, fault, last, diff, hist, store, frame, mixer, system, limits, runtime, auth, objects, fees, ownership, reserve, sync, info>>

\* The kernel has taken the result; the module waits for the next event
MovesResume ==
    /\ moves.event # "new"
    /\ moves' = [moves EXCEPT !.before = <<>>, !.event = "new", !.callee = "none",
                              !.nodes_to_move = <<>>, !.result = Done(0),
                              !.checked = 0, !.transferred = FALSE]
    /\ UNCHANGED <<track, phase, fault, last, diff, hist, store, frame, mixer, system, limits, runtime, auth, objects, fees, ownership, reserve, sync, info>>

MovesNext ==
    \/ BeforePushFrame
    \/ OnExecutionFinish
    \/ MovesResume

\* The places in nodes_to_move of the key-value stores and global objects
StoresAndGlobals ==
    {i \in DOMAIN moves.nodes_to_move :
        moves.nodes_to_move[i].kind \in {"KeyValueStore", "GlobalObject"}}

\* C22: a key-value store or a global object listed in nodes_to_move is always
\* rejected, with CantMoveDownstream at frame push and with CantMoveUpstream at
\* execution finish, and no node changes owner; the check stops at the first
\* rejected node, which is at or before the first such node: the nodes behind
\* it are not handed to the module and their proofs are left as they were.
C22_StoresAndGlobalsStay ==
    (moves.event \in {"before_push_frame", "on_execution_finish"} /\ StoresAndGlobals # {}) =>
        /\ moves.result = Err(IF moves.event = "before_push_frame"
                              THEN "CantMoveDownstream" ELSE "CantMoveUpstream")
        /\ ~moves.transferred
        /\ \A i \in StoresAndGlobals : moves.checked <= i
        /\ \A j \in DOMAIN moves.nodes_to_move :
              (j > moves.checked /\ moves.nodes_to_move[j].kind = "Proof") =>
                  moves.proofs[moves.nodes_to_move[j].proof]
                      = moves.before[moves.nodes_to_move[j].proof]
        /\ moves.event = "on_execution_finish" =>
              \E i \in StoresAndGlobals : moves.checked = i

\* C22 witness: a push to a method that would hand over a global object and then
\* an unrestricted proof is rejected at the global object; the proof behind it is
\* still unrestricted
C22_Witness ==
    /\ moves.event = "before_push_frame"
    /\ moves.callee = "OtherMethod"
    /\ Len(moves.nodes_to_move) = 2
    /\ moves.nodes_to_move[1].kind = "GlobalObject"
    /\ moves.nodes_to_move[2].kind = "Proof"
    /\ ~moves.before[moves.nodes_to_move[2].proof].restricted
    /\ ~moves.proofs[moves.nodes_to_move[2].proof].restricted
    /\ moves.result = Err("CantMoveDownstream")
    /\ moves.checked = 1

SpecMoves == InitMoves /\ [][MovesNext]_vars

(***************************************************************************)
(* Uuid generation in two executions, each with its own transaction runtime *)
(* (transaction hash, next_id, logs).  An execution is taken up either at   *)
(* its start or after it has generated all but the last few of the uuids    *)
(* that next_id can count.                                                   *)
(***************************************************************************)

MaxUuids == 3      \* calls of generate_uuid in one execution
MaxLogs == 1       \* log entries written in one execution

Executions == {1, 2}

TxHashes == {"hash_a", "hash_b"}

\* The uuids an execution has generated before it is taken up
UuidStarts == {0, u32_MAX - (MaxUuids - 1)}

\* SystemModuleMixer::new: the transaction runtime starts with next_id 0 and no
\* logs; an execution taken up later has counted its uuids in next_id
InitUuid ==
    /\ runtime \in [runs : [Executions -> {[hash |-> h, start |-> n, next_id |-> n,
                                            logs |-> 0, uuids |-> <<>>, calls |-> 0] :
                                               h \in TxHashes, n \in UuidStarts}],
                    event : {"new"},
                    run : {1},
                    before : {0},
                    result : {Done(0)}]
    /\ track = TrackNew(EmptyMap)
    /\ phase = "unused"
    /\ fault = "none"
    /\ last = [op |-> "unused"]
    /\ diff = EmptyMap
    /\ hist = HistInit
    /\ store = TrackNew(EmptyMap)
    /\ frame = [status |-> "unused"]
    /\ mixer = [event |-> "unused"]
    /\ system = [event |-> "unused"]
    /\ limits = [event |-> "unused"]
    /\ moves = [event |-> "unused"]
    /\ auth = [event |-> "unused"]
    /\ objects = [event |-> "unused"]
    /\ fees = [event |-> "unused"]
    /\ ownership = [event |-> "unused"]
    /\ reserve = [event |-> "unused"]
    /\ sync = [event |-> "unused"]
    /\ info = [event |-> "unused"]

\* The runtime substate of an execution
RuntimeSubstate(run) ==
    [hash |-> run.hash, next_id |-> run.next_id, logs |-> run.logs]

\* One call of generate_uuid in execution e
RuntimeGenerateUuid(e) ==
    /\ runtime.runs[e].calls < MaxUuids
    /\ LET run == runtime.runs[e]
           r == generate_uuid(RuntimeSubstate(run), {})
       IN  runtime' = [runs |-> [runtime.runs EXCEPT
                                    ![e].next_id = r.substate.next_id,
                                    ![e].calls = run.calls + 1,
                                    ![e].uuids = IF r.result.ok
                                                 THEN Append(run.uuids, r.result.value)
                                                 ELSE run.uuids],
                       event |-> "generate_uuid", run |-> e,
                       before |-> run.next_id, result |-> r.result]
    /\ UNCHANGED <<track, phase, fault, last, diff, hist, store, frame, mixer, system, limits, moves, auth, objects, fees, ownership, reserve, sync, info>>

\* Execution e writes a log entry: state of the runtime other than hash and next_id
RuntimeAddLog(e) ==
    /\ runtime.runs[e].logs < MaxLogs
    /\ runtime' = [runtime EXCEPT !.runs[e].logs = runtime.runs[e].logs + 1,
                                  !.event = "add_log", !.run = e,
                                  !.before = runtime.runs[e].next_id,
                                  !.result = Done(0)]
    /\ UNCHANGED <<track, phase, fault, last, diff, hist, store, frame, mixer, system, limits, moves, auth, objects, fees, ownership, reserve, sync, info>>

UuidNext ==
    \/ \E e \in Executions : RuntimeGenerateUuid(e)
    \/ \E e \in Executions : RuntimeAddLog(e)

\* C23: generate_uuid fails with OutOfUUid exactly when next_id is u32::MAX and
\* then leaves next_id as it was; otherwise it succeeds and next_id grows by
\* exactly 1 and does not wrap around.
C23_OutOfUuidAtMax ==
    runtime.event = "generate_uuid" =>
        /\ (runtime.result = Err("OutOfUUid")) <=> (runtime.before = u32_MAX)
        /\ runtime.result.ok <=> (runtime.before # u32_MAX)
        /\ ~runtime.result.ok => runtime.runs[runtime.run].next_id = runtime.before
        /\ runtime.result.ok =>
              /\ runtime.runs[runtime.run].next_id = runtime.before + 1
              /\ runtime.runs[runtime.run].next_id > runtime.before

\* C23 witness: an execution that has generated uuids up to next_id = u32::MAX is
\* refused the next one and next_id stays at u32::MAX
C23_Witness ==
    /\ runtime.event = "generate_uuid"
    /\ runtime.before = u32_MAX
    /\ runtime.result = Err("OutOfUUid")
    /\ runtime.runs[runtime.run].next_id = u32_MAX
    /\ Len(runtime.runs[runtime.run].uuids) = MaxUuids - 1

\* C24: the n-th uuid generated in a transaction depends only on the transaction
\* hash and n: in two executions with the same transaction hash the n-th uuids
\* are the same, whatever else the executions did.
C24_UuidDeterministic ==
    \A a, b \in Executions :
        \A i \in DOMAIN runtime.runs[a].uuids, j \in DOMAIN runtime.runs[b].uuids :
            (/\ runtime.runs[a].hash = runtime.runs[b].hash
             /\ runtime.runs[a].start = runtime.runs[b].start
             /\ i = j)
                => runtime.runs[a].uuids[i] = runtime.runs[b].uuids[j]

\* C24 witness: two executions of the same transaction hash, only one of which
\* wrote a log, have both generated two uuids, the same ones
C24_Witness ==
    /\ runtime.runs[1].hash = runtime.runs[2].hash
    /\ runtime.runs[1].start = 0
    /\ runtime.runs[2].start = 0
    /\ runtime.runs[1].logs # runtime.runs[2].logs
    /\ Len(runtime.runs[1].uuids) = 2
    /\ runtime.runs[1].uuids = runtime.runs[2].uuids

SpecUuid == InitUuid /\ [][UuidNext]_vars

(***************************************************************************)
(* The role table of a component under the Auth module: creation with a    *)
(* role table, set_authority_rule and set_authority_mutability.  The module *)
(* itself is described by the specification and pinned down by the tests of *)
(* access_rules.rs: a request is authorised against the role's mutability   *)
(* rule, then the cycle check runs over the new role graph.                 *)
(***************************************************************************)

RoleNames == {"deposit_funds_auth", "borrow_funds_auth"}

Badges == {"virtual_badge"}

\* rule!(allow_all), rule!(deny_all), rule!(require(badge)), rule!(require("role"))
AccessRules == {"allow_all", "deny_all", "require_badge"} \cup RoleNames

\* Roles::define_role for each role of a non-empty part of the names
RoleTables ==
    UNION {[names -> [rule : AccessRules, mutability : AccessRules]] :
              names \in SUBSET RoleNames \ {{}}}

Unauthorized == "Unauthorized"

CycleCheckError == "CycleCheckError"

AuthErrors == {Err(Unauthorized), Err(CycleCheckError)}

\* The walk from a role along the roles its access rule requires ends at a rule
\* that requires no role; it fails on a role met before and on a role that is
\* not defined
RECURSIVE RoleWalkEnds(_, _, _)
RoleWalkEnds(table, role, visited) ==
    IF role \notin DOMAIN table \/ role \in visited
    THEN FALSE
    ELSE IF table[role].rule \in RoleNames
    THEN RoleWalkEnds(table, table[role].rule, visited \cup {role})
    ELSE TRUE

\* Faulty variant of cycle_check: only a role that requires itself is found
cycle_check_SelfOnly(table) ==
    \A role \in DOMAIN table : table[role].rule # role

\* The cycle check over the role graph of a table
cycle_check(table) ==
    \A role \in DOMAIN table : RoleWalkEnds(table, role, {})

\* Faulty variant of verify_rule: deny_all is satisfied by the badge
RECURSIVE verify_rule_DenyAllOpen(_, _, _, _)
verify_rule_DenyAllOpen(rule, proofs, table, depth) ==
    IF rule = "allow_all" THEN TRUE
    ELSE IF rule \in {"deny_all", "require_badge"} THEN "virtual_badge" \in proofs
    ELSE /\ depth > 0
         /\ rule \in DOMAIN table
         /\ verify_rule_DenyAllOpen(table[rule].rule, proofs, table, depth - 1)

\* Faulty variant of verify_rule: a required badge need not be presented
RECURSIVE verify_rule_NoBadge(_, _, _, _)
verify_rule_NoBadge(rule, proofs, table, depth) ==
    IF rule = "allow_all" THEN TRUE
    ELSE IF rule = "deny_all" THEN FALSE
    ELSE IF rule = "require_badge" THEN TRUE
    ELSE /\ depth > 0
         /\ rule \in DOMAIN table
         /\ verify_rule_NoBadge(table[rule].rule, proofs, table, depth - 1)

\* The proofs presented satisfy the rule; a required role is resolved to the
\* access rule of that role
RECURSIVE verify_rule(_, _, _, _)
verify_rule(rule, proofs, table, depth) ==
    IF rule = "allow_all" THEN TRUE
    ELSE IF rule = "deny_all" THEN FALSE
    ELSE IF rule = "require_badge" THEN "virtual_badge" \in proofs
    ELSE /\ depth > 0
         /\ rule \in DOMAIN table
         /\ verify_rule(table[rule].rule, proofs, table, depth - 1)

\* The proofs satisfy the mutability rule of a role of the table
Authorized(table, role, proofs) ==
    /\ role \in DOMAIN table
    /\ verify_rule(table[role].mutability, proofs, table, Cardinality(RoleNames))

\* MutableAccessRulesComponent::new with a role table
create_component(table) ==
    IF cycle_check(table)
    THEN [table |-> table, created |-> TRUE, result |-> Done(0)]
    ELSE [table |-> <<>>, created |-> FALSE, result |-> Err(CycleCheckError)]

\* set_authority_access_rule on a role of the component
set_authority_rule(table, role, rule, proofs) ==
    IF ~Authorized(table, role, proofs)
    THEN [table |-> table, result |-> Err(Unauthorized)]
    ELSE IF ~cycle_check([table EXCEPT ![role].rule = rule])
    THEN [table |-> table, result |-> Err(CycleCheckError)]
    ELSE [table |-> [table EXCEPT ![role].rule = rule], result |-> Done(0)]

\* set_authority_mutability on a role of the component
set_authority_mutability(table, role, mutability, proofs) ==
    IF ~Authorized(table, role, proofs)
    THEN [table |-> table, result |-> Err(Unauthorized)]
    ELSE [table |-> [table EXCEPT ![role].mutability = mutability], result |-> Done(0)]

\* No component yet
InitAuth ==
    /\ auth = [created |-> FALSE, table |-> <<>>, before |-> <<>>, attempt |-> <<>>,
               event |-> "new", role |-> "none", proofs |-> {}, result |-> Done(0)]
    /\ track = TrackNew(EmptyMap)
    /\ phase = "unused"
    /\ fault = "none"
    /\ last = [op |-> "unused"]
    /\ diff = EmptyMap
    /\ hist = HistInit
    /\ store = TrackNew(EmptyMap)
    /\ frame = [status |-> "unused"]
    /\ mixer = [event |-> "unused"]
    /\ system = [event |-> "unused"]
    /\ limits = [event |-> "unused"]
    /\ moves = [event |-> "unused"]
    /\ runtime = [event |-> "unused"]
    /\ objects = [event |-> "unused"]
    /\ fees = [event |-> "unused"]
    /\ ownership = [event |-> "unused"]
    /\ reserve = [event |-> "unused"]
    /\ sync = [event |-> "unused"]
    /\ info = [event |-> "unused"]

\* A transaction creates the component with some role table
CreateComponent ==
    /\ auth.event = "new"
    /\ ~auth.created
    /\ \E table \in RoleTables :
          LET r == create_component(table)
          IN  auth' = [created |-> r.created, table |-> r.table, before |-> auth.table,
                       attempt |-> table, event |-> "create_component",
                       role |-> "none", proofs |-> {}, result |-> r.result]
    /\ UNCHANGED <<track, phase, fault, last, diff, hist, store, frame, mixer, system, limits, moves, runtime, objects, fees, ownership, reserve, sync, info>>

\* A transaction presenting proofs asks for a new access rule of a role
SetAuthorityRule ==
    /\ auth.event = "new"
    /\ auth.created
    /\ \E role \in RoleNames, rule \in AccessRules, proofs \in SUBSET Badges :
          LET r == set_authority_rule(auth.table, role, rule, proofs)
          IN  auth' = [created |-> TRUE, table |-> r.table, before |-> auth.table,
                       attempt |-> IF role \in DOMAIN auth.table
                                   THEN [auth.table EXCEPT ![role].rule = rule]
                                   ELSE auth.table,
                       event |-> "set_authority_rule",
                       role |-> role, proofs |-> proofs, result |-> r.result]
    /\ UNCHANGED <<track, phase, fault, last, diff, hist, store, frame, mixer, system, limits, moves, runtime, objects, fees, ownership, reserve, sync, info>>

\* A transaction presenting proofs asks for a new mutability rule of a role
SetAuthorityMutability ==
    /\ auth.event = "new"
    /\ auth.created
    /\ \E role \in RoleNames, mutability \in AccessRules, proofs \in SUBSET Badges :
          LET r == set_authority_mutability(auth.table, role, mutability, proofs)
          IN  auth' = [created |-> TRUE, table |-> r.table, before |-> auth.table,
                       attempt |-> IF role \in DOMAIN auth.table
                                   THEN [auth.table EXCEPT ![role].mutability = mutability]
                                   ELSE auth.table,
                       event |-> "set_authority_mutability",
                       role |-> role, proofs |-> proofs, result |-> r.result]
    /\ UNCHANGED <<track, phase, fault, last, diff, hist, store, frame, mixer, system, limits, moves, runtime, objects, fees, ownership, reserve, sync, info>>

\* The transaction is over; the next one starts from the table as it is
AuthResume ==
    /\ auth.event # "new"
    /\ auth' = [auth EXCEPT !.before = <<>>, !.attempt = <<>>, !.event = "new",
                            !.role = "none", !.proofs = {}, !.result = Done(0)]
    /\ UNCHANGED <<track, phase, fault, last, diff, hist, store, frame, mixer, system, limits, moves, runtime, objects, fees, ownership, reserve, sync, info>>

AuthNext ==
    \/ CreateComponent
    \/ SetAuthorityRule
    \/ SetAuthorityMutability
    \/ AuthResume

\* The roles reached from the roles of S in one to n steps of the role graph
RECURSIVE RequiredRoles(_, _, _)
RequiredRoles(table, S, n) ==
    IF n = 0
    THEN {}
    ELSE LET next == {table[role].rule : role \in S \cap DOMAIN table} \cap RoleNames
         IN  next \cup RequiredRoles(table, next, n - 1)

\* The role graph of the table has a directed cycle
Cyclic(table) ==
    \E role \in DOMAIN table : role \in RequiredRoles(table, {role}, Cardinality(RoleNames))

\* A role of the table requires a role that the table does not define
Dangling(table) ==
    \E role \in DOMAIN table : table[role].rule \in RoleNames \ DOMAIN table

\* The rules that require no role at which a rule ends up through the roles it
\* requires
ResolvedRules(table, rule) ==
    IF rule \notin RoleNames
    THEN {rule}
    ELSE {table[role].rule :
             role \in ({rule} \cup RequiredRoles(table, {rule}, Cardinality(RoleNames)))
                         \cap DOMAIN table} \ RoleNames

\* The proofs presented satisfy the mutability rule of the role
MutabilityMet(table, role, proofs) ==
    /\ role \in DOMAIN table
    /\ \E rule \in ResolvedRules(table, table[role].mutability) :
          \/ rule = "allow_all"
          \/ rule = "require_badge" /\ Badges \cap proofs # {}

C26_LockedForever ==
    [][\A role \in DOMAIN auth.table :
          auth.table[role].mutability = "deny_all" =>
              /\ role \in DOMAIN auth'.table
              /\ auth'.table[role] = auth.table[role]
              /\ (/\ auth'.event \in {"set_authority_rule", "set_authority_mutability"}
                  /\ auth'.role = role)
                    => auth'.result \in AuthErrors]_vars

\* C26 witness: a request that presents the badge for a locked role is refused
C26_Witness ==
    /\ auth.event \in {"set_authority_rule", "set_authority_mutability"}
    /\ auth.role \in DOMAIN auth.before
    /\ auth.before[auth.role].mutability = "deny_all"
    /\ auth.proofs = Badges
    /\ auth.attempt # auth.before
    /\ auth.result = Err(Unauthorized)
    /\ auth.table = auth.before

\* The last request asked for a change of a role of the component
RoleChangeAsked ==
    /\ auth.event \in {"set_authority_rule", "set_authority_mutability"}
    /\ auth.role \in DOMAIN auth.before

\* C27 as stated: a change of a role's access rule or mutability succeeds if and
\* only if the proofs satisfy the role's current mutability rule; otherwise it
\* fails with an AuthError and changes nothing.
C27_Original ==
    RoleChangeAsked =>
        /\ auth.result.ok <=> MutabilityMet(auth.before, auth.role, auth.proofs)
        /\ ~auth.result.ok => (auth.result \in AuthErrors /\ auth.table = auth.before)

\* C27: a change of a role's access rule or mutability succeeds if and only if
\* the proofs satisfy the role's current mutability rule and, for an access
\* rule, the new role graph has no cycle and no undefined role; otherwise it
\* fails with an AuthError and changes nothing.
C27_MutabilityAndCycleCheck ==
    RoleChangeAsked =>
        /\ auth.result.ok <=>
              /\ MutabilityMet(auth.before, auth.role, auth.proofs)
              /\ auth.event = "set_authority_rule" =>
                    (~Cyclic(auth.attempt) /\ ~Dangling(auth.attempt))
        /\ auth.result.ok => auth.table = auth.attempt
        /\ ~auth.result.ok => (auth.result \in AuthErrors /\ auth.table = auth.before)

\* C27 witness: with the required badge presented the access rule of a role is
\* changed; the same request without the badge was refused before
C27_Witness ==
    /\ auth.event = "set_authority_rule"
    /\ auth.role \in DOMAIN auth.before
    /\ auth.before[auth.role].mutability = "require_badge"
    /\ auth.proofs = Badges
    /\ auth.result.ok
    /\ auth.table # auth.before
    /\ auth.table = auth.attempt

SpecAuth == InitAuth /\ [][AuthNext]_vars

(***************************************************************************)
(* Methods of object modules: a function creates simple objects, makes one  *)
(* the child of another, globalizes objects with a set of attached modules  *)
(* and calls a method of a module on a node (call_method_advanced).  The     *)
(* system's call_method_advanced is described by the tests of               *)
(* system_module_methods.rs.                                                 *)
(***************************************************************************)

MaxObjects == 3    \* objects created in one transaction

ObjectIds == 1..MaxObjects

\* ObjectModuleId other than Main
ObjectModules == {"Metadata", "Royalty"}

ObjectModuleDoesNotExist(module) ==
    [variant |-> "ObjectModuleDoesNotExist", module |-> module]

NoObject == [status |-> "none", parent |-> 0, modules |-> {}]

\* Faulty variant of call_method_advanced: any globalized object has every module
call_method_advanced_AnyGlobal(nodes, node, module) ==
    IF nodes[node].status = "global" THEN Done(0) ELSE Err(ObjectModuleDoesNotExist(module))

\* call_method_advanced with an object module id: the module's method runs only
\* on a globalized object that has the module attached
call_method_advanced(nodes, node, module) ==
    IF nodes[node].status = "global" /\ module \in nodes[node].modules
    THEN Done(0)
    ELSE Err(ObjectModuleDoesNotExist(module))

\* No object yet
InitObjects ==
    /\ objects = [nodes |-> [id \in ObjectIds |-> NoObject], event |-> "new",
                  node |-> 0, module |-> "none", result |-> Done(0)]
    /\ track = TrackNew(EmptyMap)
    /\ phase = "unused"
    /\ fault = "none"
    /\ last = [op |-> "unused"]
    /\ diff = EmptyMap
    /\ hist = HistInit
    /\ store = TrackNew(EmptyMap)
    /\ frame = [status |-> "unused"]
    /\ mixer = [event |-> "unused"]
    /\ system = [event |-> "unused"]
    /\ limits = [event |-> "unused"]
    /\ moves = [event |-> "unused"]
    /\ runtime = [event |-> "unused"]
    /\ auth = [event |-> "unused"]
    /\ fees = [event |-> "unused"]
    /\ ownership = [event |-> "unused"]
    /\ reserve = [event |-> "unused"]
    /\ sync = [event |-> "unused"]
    /\ info = [event |-> "unused"]

\* api.new_simple_object without an owned child: the frame owns the new object
NewSimpleObject ==
    /\ objects.event = "new"
    /\ \E id \in ObjectIds :
          /\ objects.nodes[id].status = "none"
          /\ objects' = [objects EXCEPT
                            !.nodes[id] = [status |-> "owned", parent |-> 0, modules |-> {}]]
    /\ UNCHANGED <<track, phase, fault, last, diff, hist, store, frame, mixer, system, limits, moves, runtime, auth, fees, ownership, reserve, sync, info>>

\* api.new_simple_object with a field that owns a frame-owned object: the new
\* object is owned by the frame and the other object becomes its child
NewParentObject ==
    /\ objects.event = "new"
    /\ \E id, child \in ObjectIds :
          /\ objects.nodes[id].status = "none"
          /\ objects.nodes[child].status = "owned"
          /\ objects.nodes[child].parent = 0
          /\ objects' = [objects EXCEPT
                            !.nodes[id] = [status |-> "owned", parent |-> 0, modules |-> {}],
                            !.nodes[child].parent = id]
    /\ UNCHANGED <<track, phase, fault, last, diff, hist, store, frame, mixer, system, limits, moves, runtime, auth, fees, ownership, reserve, sync, info>>

\* api.globalize of a frame-owned object with the modules attached to it
Globalize ==
    /\ objects.event = "new"
    /\ \E id \in ObjectIds, modules \in SUBSET ObjectModules :
          /\ objects.nodes[id].status = "owned"
          /\ objects.nodes[id].parent = 0
          /\ objects' = [objects EXCEPT
                            !.nodes[id] = [status |-> "global", parent |-> 0,
                                           modules |-> modules]]
    /\ UNCHANGED <<track, phase, fault, last, diff, hist, store, frame, mixer, system, limits, moves, runtime, auth, fees, ownership, reserve, sync, info>>

\* api.call_method_advanced with the id of an object module on an object
CallMethodAdvanced ==
    /\ objects.event = "new"
    /\ \E id \in ObjectIds, module \in ObjectModules :
          /\ objects.nodes[id].status # "none"
          /\ objects' = [objects EXCEPT
                            !.event = "call_method_advanced", !.node = id,
                            !.module = module,
                            !.result = call_method_advanced(objects.nodes, id, module)]
    /\ UNCHANGED <<track, phase, fault, last, diff, hist, store, frame, mixer, system, limits, moves, runtime, auth, fees, ownership, reserve, sync, info>>

\* The call has returned to the function
ObjectsResume ==
    /\ objects.event # "new"
    /\ objects' = [objects EXCEPT !.event = "new", !.node = 0, !.module = "none",
                                  !.result = Done(0)]
    /\ UNCHANGED <<track, phase, fault, last, diff, hist, store, frame, mixer, system, limits, moves, runtime, auth, fees, ownership, reserve, sync, info>>

ObjectsNext ==
    \/ NewSimpleObject
    \/ NewParentObject
    \/ Globalize
    \/ CallMethodAdvanced
    \/ ObjectsResume

\* The object called last is a globalized object with the called module attached
ModuleAttached ==
    /\ objects.nodes[objects.node].status = "global"
    /\ objects.module \in objects.nodes[objects.node].modules

SpecObjects == InitObjects /\ [][ObjectsNext]_vars

(***************************************************************************)
(* The costing module charging the fee table's kernel API costs: a cost is  *)
(* computed by FeeTable::kernel_api_cost and charged by                     *)
(* apply_execution_cost against the fee reserve.                            *)
(***************************************************************************)

MaxCharges == 2    \* costs charged in one transaction

\* The base cost and the cost per unit of size of an entry
EntryBase(entry) ==
    CASE entry.kind = "Invoke" -> fixed_low
      [] entry.kind \in {"LockSubstate", "DropLock"} -> fixed_high
      [] OTHER -> fixed_medium

EntryFactor(entry) ==
    CASE entry.kind = "Invoke" -> 10
      [] entry.kind \in {"CreateNode", "DropNode", "ReadSubstate"} -> 100
      [] entry.kind = "WriteSubstate" -> 1000
      [] OTHER -> 0

\* Sizes: small ones, the largest whose cost fits u32 for each entry, the
\* next ones, and the largest size
EntrySizes(kind) ==
    LET e == [kind |-> kind, size |-> 0]
        fits == (u32_MAX - EntryBase(e)) \div EntryFactor(e)
    IN  {0, 1, fits, fits + 1, u32_MAX \div EntryFactor(e), u32_MAX \div EntryFactor(e) + 1,
         u32_MAX}

\* CostingEntry
CostingEntries ==
    {[kind |-> k, size |-> 0] : k \in {"LockSubstate", "DropLock"}}
        \cup UNION {{[kind |-> k, size |-> n] : n \in EntrySizes(k)} :
                       k \in {"Invoke", "CreateNode", "DropNode", "ReadSubstate",
                              "WriteSubstate"}}

\* A transaction with a fee reserve, in a build with or without overflow checks
InitFees ==
    /\ fees \in [remaining : {fixed_high, u32_MAX},
                 overflow_checks : BOOLEAN,
                 charges : {0},
                 event : {"new"},
                 entry : {[kind |-> "none", size |-> 0]},
                 cost : {Done(0)},
                 result : {OkUnit}]
    /\ track = TrackNew(EmptyMap)
    /\ phase = "unused"
    /\ fault = "none"
    /\ last = [op |-> "unused"]
    /\ diff = EmptyMap
    /\ hist = HistInit
    /\ store = TrackNew(EmptyMap)
    /\ frame = [status |-> "unused"]
    /\ mixer = [event |-> "unused"]
    /\ system = [event |-> "unused"]
    /\ limits = [event |-> "unused"]
    /\ moves = [event |-> "unused"]
    /\ runtime = [event |-> "unused"]
    /\ auth = [event |-> "unused"]
    /\ objects = [event |-> "unused"]
    /\ ownership = [event |-> "unused"]
    /\ reserve = [event |-> "unused"]
    /\ sync = [event |-> "unused"]
    /\ info = [event |-> "unused"]

\* The charge of a computed cost; a panic in the computation ends the call
ChargeCost(remaining, cost) ==
    IF cost.ok
    THEN apply_execution_cost(remaining, cost.value, 1)
    ELSE [remaining |-> remaining, result |-> cost]

\* A kernel API costing hook: apply_execution_cost with kernel_api_cost(entry)
ApplyKernelApiCost ==
    /\ fees.event = "new"
    /\ fees.charges < MaxCharges
    /\ \E entry \in CostingEntries :
          LET cost == kernel_api_cost(entry, fees.overflow_checks)
              r == ChargeCost(fees.remaining, cost)
          IN  fees' = [fees EXCEPT !.remaining = r.remaining,
                                   !.charges = fees.charges + 1,
                                   !.event = "apply_execution_cost",
                                   !.entry = entry, !.cost = cost, !.result = r.result]
    /\ UNCHANGED <<track, phase, fault, last, diff, hist, store, frame, mixer, system, limits, moves, runtime, auth, objects, ownership, reserve, sync, info>>

\* The hook has returned
FeesResume ==
    /\ fees.event # "new"
    /\ fees' = [fees EXCEPT !.event = "new", !.entry = [kind |-> "none", size |-> 0],
                            !.cost = Done(0), !.result = OkUnit]
    /\ UNCHANGED <<track, phase, fault, last, diff, hist, store, frame, mixer, system, limits, moves, runtime, auth, objects, ownership, reserve, sync, info>>

FeesNext ==
    \/ ApplyKernelApiCost
    \/ FeesResume

\* C29: for every size the kernel API cost is the exact value of base plus
\* factor times size, or, when that does not fit u32, the hook fails with an
\* explicit error; the cost never wraps around to a smaller one.
C29_NoSilentWrap ==
    fees.event = "apply_execution_cost" =>
        IF CostOverflows(EntryBase(fees.entry), EntryFactor(fees.entry), fees.entry.size)
        THEN ~fees.result.ok /\ "panic" \notin DOMAIN fees.result
        ELSE fees.cost = Done(EntryBase(fees.entry) + EntryFactor(fees.entry) * fees.entry.size)

\* The cases in which C29 fails: without overflow checks a cost that does not
\* fit u32 has wrapped around to a smaller one and has been charged
C29_WrappedAndCharged ==
    /\ fees.event = "apply_execution_cost"
    /\ ~fees.overflow_checks
    /\ CostOverflows(EntryBase(fees.entry), EntryFactor(fees.entry), fees.entry.size)
    /\ fees.cost.ok
    /\ fees.cost.value < EntryBase(fees.entry)
    /\ fees.result.ok

SpecFees == InitFees /\ [][FeesNext]_vars

(***************************************************************************)
(* Proof::contains of the scrypto library, asked of a proof of some amount  *)
(* of some resource.                                                        *)
(***************************************************************************)

MaxProofAmount == 3    \* amounts of a proof and of a query

ResourceDefIds == {"resource_a", "resource_b", "resource_c"}

\* Proof::contains, with the proof's resource_def_id() and amount()
Proof_contains(self, amount, resource_def_id) ==
    self.resource_def_id = resource_def_id /\ self.amount > amount

\* A component holds a proof
InitOwnership ==
    /\ ownership \in [proof : [resource_def_id : ResourceDefIds, amount : 0..MaxProofAmount],
                      event : {"new"},
                      amount : {0},
                      resource_def_id : {"none"},
                      result : {FALSE}]
    /\ track = TrackNew(EmptyMap)
    /\ phase = "unused"
    /\ fault = "none"
    /\ last = [op |-> "unused"]
    /\ diff = EmptyMap
    /\ hist = HistInit
    /\ store = TrackNew(EmptyMap)
    /\ frame = [status |-> "unused"]
    /\ mixer = [event |-> "unused"]
    /\ system = [event |-> "unused"]
    /\ limits = [event |-> "unused"]
    /\ moves = [event |-> "unused"]
    /\ runtime = [event |-> "unused"]
    /\ auth = [event |-> "unused"]
    /\ objects = [event |-> "unused"]
    /\ fees = [event |-> "unused"]
    /\ reserve = [event |-> "unused"]
    /\ sync = [event |-> "unused"]
    /\ info = [event |-> "unused"]

\* The component asks whether the proof contains an amount of a resource
Contains ==
    /\ ownership.event = "new"
    /\ \E amount \in 0..MaxProofAmount, resource_def_id \in ResourceDefIds :
          ownership' = [ownership EXCEPT
                           !.event = "contains", !.amount = amount,
                           !.resource_def_id = resource_def_id,
                           !.result = Proof_contains(ownership.proof, amount, resource_def_id)]
    /\ UNCHANGED <<track, phase, fault, last, diff, hist, store, frame, mixer, system, limits, moves, runtime, auth, objects, fees, reserve, sync, info>>

\* The component goes on with the answer
ContainsReturn ==
    /\ ownership.event = "contains"
    /\ ownership' = [ownership EXCEPT !.event = "new", !.amount = 0,
                                      !.resource_def_id = "none", !.result = FALSE]
    /\ UNCHANGED <<track, phase, fault, last, diff, hist, store, frame, mixer, system, limits, moves, runtime, auth, objects, fees, reserve, sync, info>>

OwnershipNext ==
    \/ Contains
    \/ ContainsReturn

\* C30: contains answers true if and only if the proof is of the given resource
\* and its amount is at least the given amount, equal amounts included.
C30_ContainsAtLeast ==
    ownership.event = "contains" =>
        (ownership.result <=>
            (/\ ownership.proof.resource_def_id = ownership.resource_def_id
             /\ ownership.proof.amount >= ownership.amount))

SpecOwnership == InitOwnership /\ [][OwnershipNext]_vars

(***************************************************************************)
(* CostingModule::on_init: the deferred charges of a transaction with a    *)
(* payload of payload_len bytes and num_of_signatures signatures.  The fee *)
(* reserve's consume_deferred is described by the specification: it records *)
(* units times multiplier under the reason, or fails with Overflow.         *)
(***************************************************************************)

MaxPayloadLen == 8         \* payload bytes of a transaction, leaving aside the huge ones
MaxSignatures == 4         \* signatures of a transaction, leaving aside the huge numbers

tx_base_fee == 50000

tx_payload_cost_per_byte == 5

tx_signature_verification_per_sig == 100000

\* The fee reserve records a deferred charge of units * multiplier
consume_deferred(deferred, units, multiplier, reason) ==
    IF multiplier > 0 /\ units > u32_MAX \div multiplier
    THEN [deferred |-> deferred, result |-> Err(Overflow)]
    ELSE [deferred |-> Append(deferred, [reason |-> reason, units |-> units * multiplier]),
          result |-> OkUnit]

\* Result::and_then with the next consume_deferred
and_then_consume_deferred(r, units, multiplier, reason) ==
    IF r.result.ok
    THEN consume_deferred(r.deferred, units, multiplier, reason)
    ELSE r

\* The map_err at the end of on_init
map_err_FeeReserveError(r) ==
    IF r.result.ok
    THEN r
    ELSE [deferred |-> r.deferred,
          result |-> Err(CostingError(CostingError_FeeReserveError(r.result.error)))]

\* Faulty variant of CostingModule_on_init: every charge is issued whatever the
\* earlier ones returned
CostingModule_on_init_NoShortCut(deferred, payload_len, num_of_signatures) ==
    map_err_FeeReserveError(
        consume_deferred(
            consume_deferred(
                consume_deferred(deferred, tx_base_fee, 1, "TxBaseCost").deferred,
                tx_payload_cost_per_byte, payload_len, "TxPayloadCost").deferred,
            tx_signature_verification_per_sig, num_of_signatures,
            "TxSignatureVerification"))

\* CostingModule::on_init
CostingModule_on_init(deferred, payload_len, num_of_signatures) ==
    map_err_FeeReserveError(
        and_then_consume_deferred(
            and_then_consume_deferred(
                consume_deferred(deferred, tx_base_fee, 1, "TxBaseCost"),
                tx_payload_cost_per_byte, payload_len, "TxPayloadCost"),
            tx_signature_verification_per_sig, num_of_signatures,
            "TxSignatureVerification"))

\* Payload lengths: small ones, and the first whose charge does not fit u32
PayloadLens == 0..MaxPayloadLen \cup {u32_MAX \div tx_payload_cost_per_byte + 1}

\* Numbers of signatures: small ones, and the first whose charge does not fit u32
SignatureCounts ==
    0..MaxSignatures \cup {u32_MAX \div tx_signature_verification_per_sig + 1}

\* CostingModule of a transaction before on_init: nothing charged yet
InitReserve ==
    /\ reserve \in [payload_len : PayloadLens,
                    num_of_signatures : SignatureCounts,
                    deferred : {<<>>},
                    event : {"new"},
                    result : {OkUnit}]
    /\ track = TrackNew(EmptyMap)
    /\ phase = "unused"
    /\ fault = "none"
    /\ last = [op |-> "unused"]
    /\ diff = EmptyMap
    /\ hist = HistInit
    /\ store = TrackNew(EmptyMap)
    /\ frame = [status |-> "unused"]
    /\ mixer = [event |-> "unused"]
    /\ system = [event |-> "unused"]
    /\ limits = [event |-> "unused"]
    /\ moves = [event |-> "unused"]
    /\ runtime = [event |-> "unused"]
    /\ auth = [event |-> "unused"]
    /\ objects = [event |-> "unused"]
    /\ fees = [event |-> "unused"]
    /\ ownership = [event |-> "unused"]
    /\ sync = [event |-> "unused"]
    /\ info = [event |-> "unused"]

\* The kernel starts the transaction: on_init of the costing module
CostingOnInit ==
    /\ reserve.event = "new"
    /\ LET r == CostingModule_on_init(reserve.deferred, reserve.payload_len,
                                      reserve.num_of_signatures)
       IN  reserve' = [reserve EXCEPT !.deferred = r.deferred, !.event = "on_init",
                                      !.result = r.result]
    /\ UNCHANGED <<track, phase, fault, last, diff, hist, store, frame, mixer, system, limits, moves, runtime, auth, objects, fees, ownership, sync, info>>

ReserveNext ==
    \/ CostingOnInit

\* The three charges of on_init, in order
DeferredCharges ==
    <<[reason |-> "TxBaseCost", units |-> tx_base_fee, multiplier |-> 1],
      [reason |-> "TxPayloadCost", units |-> tx_payload_cost_per_byte,
       multiplier |-> reserve.payload_len],
      [reason |-> "TxSignatureVerification", units |-> tx_signature_verification_per_sig,
       multiplier |-> reserve.num_of_signatures]>>

\* The charges of on_init that the fee reserve refuses
RefusedCharges ==
    {i \in DOMAIN DeferredCharges :
        /\ DeferredCharges[i].multiplier > 0
        /\ DeferredCharges[i].units > u32_MAX \div DeferredCharges[i].multiplier}

\* C33: on_init issues tx_base_fee once, tx_payload_cost_per_byte times
\* payload_len and tx_signature_verification_per_sig times num_of_signatures,
\* in this order; the charges before the first refused one are applied, that
\* one and the later ones are not, and the failure is returned as
\* CostingError::FeeReserveError.
C33_DeferredChargesInOrder ==
    reserve.event = "on_init" =>
        /\ \A i \in DOMAIN reserve.deferred :
              /\ i \in DOMAIN DeferredCharges
              /\ i \notin RefusedCharges
              /\ reserve.deferred[i] =
                    [reason |-> DeferredCharges[i].reason,
                     units |-> DeferredCharges[i].units * DeferredCharges[i].multiplier]
        /\ IF RefusedCharges = {}
           THEN Len(reserve.deferred) = Len(DeferredCharges) /\ reserve.result = OkUnit
           ELSE /\ \A i \in RefusedCharges : Len(reserve.deferred) < i
                /\ Len(reserve.deferred) + 1 \in RefusedCharges
                /\ reserve.result = Err(CostingError(CostingError_FeeReserveError(Overflow)))

\* C33 witness: the payload charge is refused; only the base fee has been
\* applied, the signature charge, which would have been accepted, has not
C33_Witness ==
    /\ reserve.event = "on_init"
    /\ RefusedCharges = {2}
    /\ reserve.num_of_signatures > 0
    /\ reserve.deferred = <<[reason |-> "TxBaseCost", units |-> tx_base_fee]>>
    /\ reserve.result = Err(CostingError(CostingError_FeeReserveError(Overflow)))

SpecReserve == InitReserve /\ [][ReserveNext]_vars

(***************************************************************************)
(* TxnSync::sync: a reader thread scans the source database for committed  *)
(* transactions and sends them over a bounded channel to an executor       *)
(* thread, which executes and commits them to the local database.  The     *)
(* source database is the ledger of a node: a log of transactions at       *)
(* versions 1, 2, ... that the node appends to while the reader scans.     *)
(* One step of a thread is one of its blocking or shared operations.       *)
(***************************************************************************)
MaxSourceVersion == 4   \* the source ledger grows to at most this version
ChannelCapacity == 2    \* transactions the channel holds (flume::bounded) before send blocks

\* The state root after the transactions of history were committed in that order:
\* a hash, taken to be free of collisions, stands for what it hashes
StateRoot(history) == history

\* The ledger up to version v: the transactions 1..v
Ledger(v) == [i \in 1..v |-> i]

\* The source database at version v: the payload and the identifiers of the transaction
SourceEntry(v) == [payload |-> v, expected_state_root_hash |-> StateRoot(Ledger(v))]

\* database.get_current_version
get_current_version(database) == Len(database)

\* max_version.unwrap_or(u64::MAX), as far as the versions of the model go
unwrap_or_MAX(max_version) ==
    IF max_version.some THEN max_version.value ELSE MaxSourceVersion + 1

InitSync ==
    /\ \E cur \in 0..MaxSourceVersion, source \in 0..MaxSourceVersion :
        \E max_version \in {None} \cup {Some(v) : v \in 0..MaxSourceVersion} :
          sync = [pc |-> "start",
                  max_version |-> max_version,
                  cur_version |-> cur,
                  source |-> source,
                  database |-> Ledger(cur),
                  channel |-> <<>>,
                  reader |-> [pc |-> "idle", iter_start_state_version |-> 0,
                              view |-> 0, next |-> 0, rescanned |-> FALSE,
                              blocked |-> FALSE],
                  executor |-> "idle"]
    /\ track = TrackNew(EmptyMap)
    /\ phase = "unused"
    /\ fault = "none"
    /\ last = [op |-> "unused"]
    /\ diff = EmptyMap
    /\ hist = HistInit
    /\ store = TrackNew(EmptyMap)
    /\ frame = [status |-> "unused"]
    /\ mixer = [event |-> "unused"]
    /\ system = [event |-> "unused"]
    /\ limits = [event |-> "unused"]
    /\ moves = [event |-> "unused"]
    /\ runtime = [event |-> "unused"]
    /\ auth = [event |-> "unused"]
    /\ objects = [event |-> "unused"]
    /\ fees = [event |-> "unused"]
    /\ ownership = [event |-> "unused"]
    /\ reserve = [event |-> "unused"]
    /\ info = [event |-> "unused"]

SyncOtherVars == <<track, phase, fault, last, diff, hist, store, frame, mixer, system, limits, moves, runtime, auth, objects, fees, ownership, reserve, info>>

\* The node appends a transaction to the source database
SourceAppend ==
    /\ sync.source < MaxSourceVersion
    /\ sync' = [sync EXCEPT !.source = @ + 1]
    /\ UNCHANGED SyncOtherVars

\* sync up to the spawning of the two threads: it returns at once when the
\* database is at or past max_version
SyncStart ==
    /\ sync.pc = "start"
    /\ sync' = IF get_current_version(sync.database) >= unwrap_or_MAX(sync.max_version)
               THEN [sync EXCEPT !.pc = "returned"]
               ELSE [sync EXCEPT !.pc = "join_reader",
                                 !.reader.pc = "catch_up",
                                 !.reader.iter_start_state_version =
                                     get_current_version(sync.database) + 1,
                                 !.executor = "receiving"]
    /\ UNCHANGED SyncOtherVars

\* Faulty variant of try_catch_up: every scan starts again after from_version
try_catch_up_FromStart(s) ==
    [s EXCEPT !.reader.pc = "iterating",
              !.reader.view = s.source,
              !.reader.next = s.cur_version + 1,
              !.reader.rescanned = (s.reader.pc = "sleeping")]

\* The head of the reader's loop: try_catch_up_with_primary, then the iterators
\* from iter_start_state_version on
try_catch_up(s) ==
    [s EXCEPT !.reader.pc = "iterating",
              !.reader.view = s.source,
              !.reader.next = s.reader.iter_start_state_version,
              !.reader.rescanned = (s.reader.pc = "sleeping")]

ReaderCatchUp ==
    /\ sync.reader.pc \in {"catch_up", "sleeping"}
    /\ sync' = try_catch_up(sync)
    /\ UNCHANGED SyncOtherVars

\* txn_iter.next(): the next transaction of the view, or the end of the scan and
\* the sleep before the next one
ReaderNext ==
    /\ sync.reader.pc = "iterating"
    /\ sync' = [sync EXCEPT !.reader.pc =
                    IF sync.reader.next <= sync.reader.view THEN "sending" ELSE "sleeping"]
    /\ UNCHANGED SyncOtherVars

\* Faulty variant of after_send: the reader does not stop at to_version
after_send_NoStop(s, next_state_version) ==
    [s EXCEPT !.reader.pc = "iterating",
              !.reader.iter_start_state_version = next_state_version + 1,
              !.reader.next = next_state_version + 1]

\* The reader after tx.send returned: it returns at to_version, which drops the
\* sender, and goes on with the next transaction otherwise
after_send(s, next_state_version) ==
    IF s.max_version = Some(next_state_version)
    THEN [s EXCEPT !.reader.pc = "done"]
    ELSE [s EXCEPT !.reader.pc = "iterating",
                   !.reader.iter_start_state_version = next_state_version + 1,
                   !.reader.next = next_state_version + 1]

\* tx.send(..).unwrap(): it blocks while the channel is full and panics when the
\* receiver is gone
ReaderSend ==
    /\ sync.reader.pc = "sending"
    /\ IF sync.executor # "receiving"
       THEN sync' = [sync EXCEPT !.reader.pc = "panicked"]
       ELSE /\ Len(sync.channel) < ChannelCapacity
            /\ sync' = after_send(
                          [sync EXCEPT !.channel = Append(@, SourceEntry(sync.reader.next))],
                          sync.reader.next)
    /\ UNCHANGED SyncOtherVars

\* The reader finds the channel full: the send blocks until the executor receives
ReaderBlock ==
    /\ sync.reader.pc = "sending"
    /\ sync.executor = "receiving"
    /\ Len(sync.channel) = ChannelCapacity
    /\ ~sync.reader.blocked
    /\ sync' = [sync EXCEPT !.reader.blocked = TRUE]
    /\ UNCHANGED SyncOtherVars

\* One turn of the executor's loop: receive, execute, commit, compare the roots
execute_and_commit(s) ==
    LET received == Head(s.channel)
        database == Append(s.database, received.payload)
    IN  [s EXCEPT !.channel = Tail(@),
                  !.database = database,
                  !.executor = IF StateRoot(database) # received.expected_state_root_hash
                               THEN "panicked"
                               ELSE "receiving"]

ExecutorCommit ==
    /\ sync.executor = "receiving"
    /\ sync.channel # <<>>
    /\ sync' = execute_and_commit(sync)
    /\ UNCHANGED SyncOtherVars

\* rx.iter() ends: the channel is empty and the sender is dropped
ExecutorFinish ==
    /\ sync.executor = "receiving"
    /\ sync.channel = <<>>
    /\ sync.reader.pc \in {"done", "panicked"}
    /\ sync' = [sync EXCEPT !.executor = "finished"]
    /\ UNCHANGED SyncOtherVars

\* txn_read_thread_handle.join().unwrap()
JoinReader ==
    /\ sync.pc = "join_reader"
    /\ sync.reader.pc \in {"done", "panicked"}
    /\ sync' = [sync EXCEPT !.pc = IF sync.reader.pc = "done" THEN "join_executor"
                                   ELSE "panicked"]
    /\ UNCHANGED SyncOtherVars

\* txn_write_thread_handle.join().unwrap(), then Ok(())
JoinExecutor ==
    /\ sync.pc = "join_executor"
    /\ sync.executor \in {"finished", "panicked"}
    /\ sync' = [sync EXCEPT !.pc = IF sync.executor = "finished" THEN "returned"
                                   ELSE "panicked"]
    /\ UNCHANGED SyncOtherVars

SyncNext ==
    \/ SourceAppend
    \/ SyncStart
    \/ ReaderCatchUp
    \/ ReaderNext
    \/ ReaderSend
    \/ ReaderBlock
    \/ ExecutorCommit
    \/ ExecutorFinish
    \/ JoinReader
    \/ JoinExecutor

\* The transactions the executor committed, in the order of their commits
Committed == SubSeq(sync.database, sync.cur_version + 1, Len(sync.database))

\* C38: the executor commits transactions in strictly increasing state-version
\* order and each version in (current version, max_version] exactly once, none
\* skipped or duplicated, under every interleaving of the reader and executor
\* threads and across the reader's re-scans of the source database: the i-th
\* commit is of the transaction at version current + i, no commit is past
\* max_version, no state root differs, and when sync returns after running the
\* threads the commits reach max_version.
C38_CommitsInOrder ==
    /\ \A i \in 1..Len(Committed) :
          /\ Committed[i] = sync.cur_version + i
          /\ sync.cur_version + i < unwrap_or_MAX(sync.max_version) + 1
    /\ \A i \in 1..Len(sync.channel) :
          sync.channel[i] = SourceEntry(get_current_version(sync.database) + i)
    /\ sync.executor # "panicked"
    /\ (sync.pc = "returned" /\ sync.executor # "idle") =>
          /\ sync.max_version.some
          /\ get_current_version(sync.database) = sync.max_version.value

\* C38 witness: the reader has re-scanned the source and has been blocked by a
\* full channel, and the executor has committed up to max_version, two versions
\* or more
C38_Witness ==
    /\ sync.pc = "returned"
    /\ sync.reader.rescanned
    /\ sync.reader.blocked
    /\ Len(Committed) >= 2
    /\ get_current_version(sync.database) = sync.max_version.value

SpecSync == InitSync /\ [][SyncNext]_vars

\* The threads are scheduled again and again, and the node goes on appending to
\* the source database until the model's last version
SyncFairness ==
    /\ WF_vars(SourceAppend)
    /\ WF_vars(SyncStart)
    /\ WF_vars(ReaderCatchUp)
    /\ WF_vars(ReaderNext)
    /\ WF_vars(ReaderSend)
    /\ WF_vars(ReaderBlock)
    /\ WF_vars(ExecutorCommit)
    /\ WF_vars(ExecutorFinish)
    /\ WF_vars(JoinReader)
    /\ WF_vars(JoinExecutor)

SpecSyncFair == InitSync /\ [][SyncNext]_vars /\ SyncFairness

\* The database was at or past max_version when sync was called
AlreadySynced ==
    sync.max_version.some /\ sync.cur_version >= sync.max_version.value

\* What C39 says of each state: a database at or past max_version is left as it
\* is and no thread runs; the reader stops right after the send of max_version;
\* the executor finishes only when the sender is dropped and the channel is
\* drained; sync returns only with the database at max_version
SyncStops ==
    /\ AlreadySynced =>
          /\ sync.pc \in {"start", "returned"}
          /\ sync.reader.pc = "idle" /\ sync.executor = "idle"
          /\ sync.database = Ledger(sync.cur_version) /\ sync.channel = <<>>
    /\ sync.reader.pc = "done" =>
          /\ sync.max_version = Some(sync.reader.next)
          /\ get_current_version(sync.database) + Len(sync.channel) = sync.reader.next
    /\ sync.executor = "finished" =>
          sync.reader.pc = "done" /\ sync.channel = <<>>
    /\ (sync.pc = "returned" /\ ~AlreadySynced) =>
          /\ sync.executor = "finished"
          /\ sync.database = Ledger(sync.max_version.value)

\* C39: if max_version is given and the source database eventually contains
\* that version, sync eventually returns: the reader stops right after sending
\* max_version, the channel then closes, and the executor drains every queued
\* transaction and finishes with the database at max_version; if the database
\* is already at or past max_version, sync returns at once without executing
\* anything.
C39_SyncReturns ==
    /\ []SyncStops
    /\ sync.max_version.some ~> sync.pc = "returned"

\* C39 witness: sync has returned with the database at max_version after the
\* reader had to wait for the source database to grow and the executor drained
\* the channel
C39_Witness ==
    /\ sync.pc = "returned"
    /\ sync.executor = "finished"
    /\ sync.reader.pc = "done"
    /\ sync.reader.rescanned
    /\ sync.channel = <<>>
    /\ sync.cur_version = 0
    /\ sync.max_version = Some(MaxSourceVersion)
    /\ sync.database = Ledger(MaxSourceVersion)

(***************************************************************************)
(* InfoAlloc: the global allocator that counts allocated bytes in three    *)
(* atomic counters.  Threads call alloc and dealloc concurrently; a step   *)
(* is one atomic operation on a counter.                                   *)
(***************************************************************************)
NumThreads == 2         \* threads that allocate
MaxCalls == 4           \* alloc and dealloc calls of all threads together

Threads == 1..NumThreads

\* The sizes of the layouts allocated and freed
LayoutSizes == {1, 2}

\* isize::max
isize_max(a, b) == IF a >= b THEN a ELSE b

\* InfoAlloc::new, and what reset_counter stores
NewCounters == [sum_counter |-> 0, current_level |-> 0, max_level |-> 0]

InitInfo ==
    /\ info = [counters |-> NewCounters,
               threads |-> [t \in Threads |->
                              [pc |-> "idle", ivalue |-> 0, old_value |-> 0]],
               calls |-> 0,
               reset |-> FALSE,
               peak |-> 0,
               lagged |-> FALSE]
    /\ track = TrackNew(EmptyMap)
    /\ phase = "unused"
    /\ fault = "none"
    /\ last = [op |-> "unused"]
    /\ diff = EmptyMap
    /\ hist = HistInit
    /\ store = TrackNew(EmptyMap)
    /\ frame = [status |-> "unused"]
    /\ mixer = [event |-> "unused"]
    /\ system = [event |-> "unused"]
    /\ limits = [event |-> "unused"]
    /\ moves = [event |-> "unused"]
    /\ runtime = [event |-> "unused"]
    /\ auth = [event |-> "unused"]
    /\ objects = [event |-> "unused"]
    /\ fees = [event |-> "unused"]
    /\ ownership = [event |-> "unused"]
    /\ reserve = [event |-> "unused"]
    /\ sync = [event |-> "unused"]

InfoOtherVars == <<track, phase, fault, last, diff, hist, store, frame, mixer, system, limits, moves, runtime, auth, objects, fees, ownership, reserve, sync>>

\* The history kept beside the counters: the largest value current_level held
\* since the last reset, and whether max_level was ever below current_level
Observed(i) ==
    [i EXCEPT !.peak = isize_max(i.peak, i.counters.current_level),
              !.lagged = i.lagged \/ i.counters.max_level < i.counters.current_level]

CanCall(t) == info.threads[t].pc = "idle" /\ info.calls < MaxCalls

\* alloc, increase_counter: sum_counter.fetch_add(ivalue)
increase_counter_sum(i, t, value) ==
    [i EXCEPT !.counters.sum_counter = @ + value,
              !.threads[t] = [pc |-> "current_level", ivalue |-> value, old_value |-> 0],
              !.calls = @ + 1]

\* increase_counter: old_value = current_level.fetch_add(ivalue)
increase_counter_level(i, t) ==
    [i EXCEPT !.counters.current_level = @ + i.threads[t].ivalue,
              !.threads[t].old_value = i.counters.current_level,
              !.threads[t].pc = "max_level"]

\* Faulty variant of increase_counter_max: the level is read again for the maximum
increase_counter_max_Reload(i, t) ==
    [i EXCEPT !.counters.max_level = isize_max(@, i.counters.current_level),
              !.threads[t].pc = "idle"]

\* increase_counter: max_level.fetch_max(old_value + ivalue); alloc then returns
increase_counter_max(i, t) ==
    [i EXCEPT !.counters.max_level =
                  isize_max(@, i.threads[t].old_value + i.threads[t].ivalue),
              !.threads[t].pc = "idle"]

\* dealloc, decrease_counter: current_level.fetch_sub(value)
decrease_counter(i, t, value) ==
    [i EXCEPT !.counters.current_level = @ - value,
              !.calls = @ + 1]

\* reset_counter: the three stores
reset_counter(i) ==
    [i EXCEPT !.counters = NewCounters, !.reset = TRUE, !.peak = 0]

AllocSum ==
    /\ \E t \in Threads, value \in LayoutSizes :
          /\ CanCall(t)
          /\ info' = Observed(increase_counter_sum(info, t, value))
    /\ UNCHANGED InfoOtherVars

AllocLevel ==
    /\ \E t \in Threads :
          /\ info.threads[t].pc = "current_level"
          /\ info' = Observed(increase_counter_level(info, t))
    /\ UNCHANGED InfoOtherVars

AllocMax ==
    /\ \E t \in Threads :
          /\ info.threads[t].pc = "max_level"
          /\ info' = Observed(increase_counter_max(info, t))
    /\ UNCHANGED InfoOtherVars

Dealloc ==
    /\ \E t \in Threads, value \in LayoutSizes :
          /\ CanCall(t)
          /\ info' = Observed(decrease_counter(info, t, value))
    /\ UNCHANGED InfoOtherVars

\* All calls have completed
AllCompleted == \A t \in Threads : info.threads[t].pc = "idle"

\* reset_counter, called once, while no alloc or dealloc is running
ResetCounter ==
    /\ AllCompleted
    /\ ~info.reset
    /\ info' = reset_counter(info)
    /\ UNCHANGED InfoOtherVars

InfoNext ==
    \/ AllocSum
    \/ AllocLevel
    \/ AllocMax
    \/ Dealloc
    \/ ResetCounter

\* C40: under every interleaving of concurrent alloc and dealloc calls with no
\* concurrent reset_counter, once all calls have completed max_level is at
\* least current_level and equals the largest value current_level held since
\* the last reset: max_level is the peak of the allocation level.
C40_MaxLevelIsPeak ==
    AllCompleted =>
        /\ info.counters.max_level >= info.counters.current_level
        /\ info.counters.max_level = info.peak

\* C40 witness: all calls have completed; while they ran max_level was below
\* current_level; the peak is above the level now and max_level equals it
C40_Witness ==
    /\ AllCompleted
    /\ info.lagged
    /\ info.reset
    /\ info.peak > info.counters.current_level
    /\ info.counters.max_level = info.peak
    /\ info.calls = MaxCalls

SpecInfo == InitInfo /\ [][InfoNext]_vars
====
